---------------------------- MODULE Spec2Model ----------------------------
(***************************************************************************)
(* A model of nuvoprog: the NuLink device session (protocol/device.go,     *)
(* protocol/frame.go), the Intel-HEX record codec (ihex), the N76E003      *)
(* configuration codec (target/n76), image composition (cmd/target_data.go)*)
(* and the connect / program / read flows (cmd).                           *)
(*                                                                         *)
(* Each component has its own specification (SpecDev, SpecHex, ...); the   *)
(* variables of the other components keep their idle values there.         *)
(***************************************************************************)
EXTENDS Integers, Sequences, FiniteSets, TLC

VARIABLES
    \* ---- protocol.Device (HID variant) ----
    seqNo,      \* Device.seqNo, a uint8
    sendErr,    \* the error the last Send returned ("nil" when it succeeded)
    wire,       \* the bytes the last Send handed to dev.Write (<<>>: none yet)
    txCur,      \* history: sequence number of the last frame handed to the transport (-1: none)
    txPrev,     \* history: sequence number of the frame handed over before that one (-1: none)
    txGap,      \* history: Send calls that built no frame between txPrev's and txCur's
    txSkip,     \* history: Send calls that built no frame since txCur's
    rxPc,       \* position of Receive: "idle", "read" (inside the loop), "done" (returned)
    attempt,    \* Receive's local attempt counter
    rxResult,   \* what Receive returned: [err, body]
    rxReads,    \* history: dev.Read calls of the current Receive
    rxStale,    \* history: full-size well-formed frames read whose sequence number is not seqNo
    rxBad,      \* history: some read of the current Receive failed, was short or malformed
    rxLast,     \* history: the buffer contents after the last read
    \* ---- ihex: one record written as text and read back ----
    hxPc,       \* "new", "written", "read", "flipped", "readflipped"
    hxPkt,      \* the Packet given to WritePacket
    hxTail,     \* the text that follows the record in the stream
    hxText,     \* the stream ReadPacket is given (characters as ASCII codes)
    hxFlip,     \* the flipped bit: [idx, bit], idx 0..3 the header bytes, 4.. the payload
    hxRes,      \* what ReadPacket returned: [err, pkt, rest]
    \* ---- ihex.Writer ----
    wSeg,       \* Writer.seg, a uint32
    wOut,       \* the records written to the sink so far, in order
    wAbs,       \* history: for each record of wOut, the absolute address of the chunk
                \* a Data record carries (-1 for the other records)
    wFailed,    \* the sink has failed (a bufio.Writer keeps failing from then on)
    wErr,       \* what the last Write returned
    wCalls,     \* history: number of Write calls so far
    wAddr,      \* history: addr of the last Write call
    wLen,       \* history: len(buf) of the last Write call
    wFrom,      \* history: records in the stream before the last Write call
    \* ---- n76.N76E003Config ----
    cfPc,       \* "off", "new", "marshalled", "unmarshalled"
    cfIn,       \* the configuration MarshalBinary is called on
    cfBuf,      \* the bytes MarshalBinary returned
    cfErr,      \* the error of the last call ("panic" for an abort)
    cfOut,      \* the configuration UnmarshalBinary filled in
    cfLen,      \* history: how many bytes UnmarshalBinary was given
    cfSize,     \* what GetLDROMSize returned on cfOut, [err, size]
    \* ---- cmd.TargetData ----
    tdPc,       \* "off", "new" (after NewTargetData), "read" (after one read)
    tdData,     \* TargetData.Data: the bytes stored so far, by index; every
                \* index of 0..ProgMemSize-1 not in the domain holds 0xFF
    tdConfig,   \* TargetData.Config
    tdErr,      \* what read returned ("panic" for a run-time abort)
    tdOffset,   \* history: the offset argument of the read
    tdLength,   \* history: the length argument of the read
    tdLog,      \* history: how the read handled each block
    tdAPROM,    \* what APROM() last returned
    tdLDROM,    \* what LDROM() last returned
    tdText,     \* history: the file read was given as text, [recs, cut]
    \* ---- cmd: connectToTarget, programCmd, readCmd ----
    flPc,       \* position of the command: "off", "start", "opened",
                \* "versioned", "configured", "reset1", "reset2", "ready",
                \* "composed", "erased", "aprom", "ldrom", "output",
                \* "teardown", "exit"
    flKind,     \* "program" or "read"
    flTarget,   \* the --target flag, lower-cased
    flHandles,  \* the device handles that are open
    flLog,      \* history: handles opened and closed, commands sent
    flErr,      \* the error the command returns
    flConfig,   \* data.Config / d.Config
    flAprom,    \* len(apromB) / len(aprom)
    flLdrom,    \* len(ldromB) / len(ldrom)
    flI,        \* the loop variable i
    \* ---- protocol: the command operations of Device ----
    cmPc,       \* "off", "idle", "done"
    cmOp,       \* the operation called: [name, code, space, address, length]
    cmReq,      \* the body handed to d.Request
    cmResp,     \* what d.Request returned: [err, body]
    cmRes,      \* what the operation returned: [err, bytes, id, info]
    \* ---- protocol/frame.go: V1Framer ----
    frPc,       \* "off", "idle", "framed", "unframed", "raw"
    frSeq,      \* the seqno given to Frame
    frBody,     \* the body given to Frame
    frOut,      \* what Frame returned: [err, frame]
    frRaw,      \* the packet given to Unframe
    frUn,       \* what Unframe returned: [err, frame]
    \* ---- ihex: a Reader and the calls of Next made on it ----
    rdPc,       \* "off", "run"
    rdAll,      \* the records of the input, and how the input ends
    rdSrc,      \* what is left of the input
    rdR,        \* the Reader: [seg, eof]
    rdTrace,    \* one entry per call of Next: [err, block, used]
    \* ---- cmd: a call of ReadTargetData ----
    rtPc,       \* "off", "idle", "done"
    rtArgs,     \* config, image, aprom, ldrom, needImage
    rtFiles,    \* what the files named by the arguments hold
    rtIO,       \* the files opened and read, in order
    rtRes,      \* what the call returned: [err, Data, Config, split]
    rtAPROM,    \* what d.APROM() returned
    rtLDROM,    \* what d.LDROM() returned
    \* ---- cmd: a call of TargetData.Write ----
    twPc,       \* "off", "idle", "done"
    twImage,    \* the image written: [Data, Config]
    twSink,     \* the sink: [failAt, close], which write fails and what Close returns
    twRes,      \* what the call did: [err, out, abs, closes]
    twBack,     \* the image read back from what was written: [err, Data, Config]
    \* ---- protocol.Device (gousb variant), driven with the calls of the HID one ----
    usbSeqNo,   \* Device.seqNo, a uint8
    usbErr,     \* the error the last Send returned
    usbRes,     \* what the last Receive returned: [err, body]
    usbSends    \* history: Send calls so far

devVars == <<seqNo, sendErr, wire, txCur, txPrev, txGap, txSkip,
             rxPc, attempt, rxResult, rxReads, rxStale, rxBad, rxLast>>

hexVars == <<hxPc, hxPkt, hxTail, hxText, hxFlip, hxRes>>

wrVars == <<wSeg, wOut, wAbs, wFailed, wErr, wCalls, wAddr, wLen, wFrom>>

cfVars == <<cfPc, cfIn, cfBuf, cfErr, cfOut, cfLen, cfSize>>

tdVars == <<tdPc, tdData, tdConfig, tdErr, tdOffset, tdLength, tdLog, tdAPROM, tdLDROM, tdText>>

flVars == <<flPc, flKind, flTarget, flHandles, flLog, flErr, flConfig, flAprom, flLdrom, flI>>

cmVars == <<cmPc, cmOp, cmReq, cmResp, cmRes>>

frVars == <<frPc, frSeq, frBody, frOut, frRaw, frUn>>

rdVars == <<rdPc, rdAll, rdSrc, rdR, rdTrace>>

rtVars == <<rtPc, rtArgs, rtFiles, rtIO, rtRes, rtAPROM, rtLDROM>>

usVars == <<usbSeqNo, usbErr, usbRes, usbSends>>

twVars == <<twPc, twImage, twSink, twRes, twBack>>

vars == <<devVars, hexVars, wrVars, cfVars, tdVars, flVars, cmVars, frVars, rdVars, rtVars, twVars, usVars>>

-----------------------------------------------------------------------------
(* Fixed-width integer helpers.                                            *)

Byte(n) == n % 256

RECURSIVE BitAnd(_, _)
BitAnd(a, b) ==
    IF a = 0 \/ b = 0 THEN 0
    ELSE (a % 2) * (b % 2) + 2 * BitAnd(a \div 2, b \div 2)

Zeros(n) == [i \in 1..n |-> 0]
Fill(n, b) == [i \in 1..n |-> b]

\* Op applied to the value of v, which is computed once.
With(v, Op(_)) == CHOOSE res \in { Op(x) : x \in {v} } : TRUE

-----------------------------------------------------------------------------
(* protocol/frame.go: V1Framer and V1Frame.  A frame is a sequence of      *)
(* bytes; Go's index i is index i+1 here.                                  *)

FrameLength == 64
MaxBodyLength == 62

SequenceNumber(f) == f[1]
BodyLength(f) == f[2]
Body(f) == SubSeq(f, 3, 2 + BodyLength(f))

\* Frame with byte 1 left as make() set it.
Frame_noLength(seqno, body) ==
    IF Len(body) > MaxBodyLength
    THEN [err |-> "ErrBodyLengthTooLong", frame |-> <<>>]
    ELSE [err |-> "nil",
          frame |-> <<seqno, 0>> \o body \o Zeros(FrameLength - 2 - Len(body))]

\* Unframe without the check of pkg[1].
Unframe_anyBodyLength(pkg) ==
    IF Len(pkg) # FrameLength
    THEN [err |-> "ErrFrameLengthIncorrect", frame |-> <<>>]
    ELSE [err |-> "nil", frame |-> pkg]

Frame(seqno, body) ==
    IF Len(body) > MaxBodyLength
    THEN [err |-> "ErrBodyLengthTooLong", frame |-> <<>>]
    ELSE [err |-> "nil",
          frame |-> <<seqno, Byte(Len(body))>> \o body
                    \o Zeros(FrameLength - 2 - Len(body))]

Unframe(pkg) ==
    IF Len(pkg) # FrameLength
    THEN [err |-> "ErrFrameLengthIncorrect", frame |-> <<>>]
    ELSE IF pkg[2] > MaxBodyLength
    THEN [err |-> "ErrBodyLengthTooLong", frame |-> <<>>]
    ELSE [err |-> "nil", frame |-> pkg]

-----------------------------------------------------------------------------
(* protocol/device.go (HID variant): sequence numbers, Send, Receive.      *)

\* Bounds of the session model.
MaxSkips == 2          \* consecutive Send calls that fail before a frame is built
MaxRxBody == 1         \* longest body among the inbound frames

SeqLimit == 128        \* 0x80
MaxAttempts == 5

nextSequenceNumber_wrap0(s) ==
    IF Byte(s + 1) >= SeqLimit THEN 0 ELSE Byte(s + 1)

nextSequenceNumber(s) ==
    IF Byte(s + 1) >= SeqLimit THEN 1 ELSE Byte(s + 1)

\* Bodies Send is called with: empty, a short command, the largest legal
\* body and one that is one byte too long.
TxBodies == { <<>>, Fill(MaxBodyLength, 255), Fill(MaxBodyLength + 1, 255) }

\* The bodies the command layer sends: none is longer than the maximum.
ReqBodies == { b \in TxBodies : Len(b) <= MaxBodyLength }

\* What dev.Write can answer: an error, a short count, the full count.
WriteOutcomes == {"ok", "err", "short"}

Send_rollback(body, wr) ==
    /\ rxPc # "read"
    /\ LET seqNum == nextSequenceNumber(seqNo)
           fr     == Frame(seqNum, body)
       IN  /\ seqNo' = IF fr.err # "nil" \/ wr # "ok" THEN seqNo ELSE seqNum
           /\ IF fr.err # "nil"
              THEN /\ txSkip < MaxSkips
                   /\ sendErr' = fr.err
                   /\ txSkip' = txSkip + 1
                   /\ UNCHANGED <<wire, txCur, txPrev, txGap>>
              ELSE /\ wire' = fr.frame
                   /\ sendErr' = CASE wr = "err"   -> "io"
                                   [] wr = "short" -> "ErrWriteSizeIncorrect"
                                   [] OTHER        -> "nil"
                   /\ txPrev' = txCur
                   /\ txCur' = SequenceNumber(fr.frame)
                   /\ txGap' = txSkip
                   /\ txSkip' = 0
    \* a new exchange starts: the locals and the history of the last Receive are gone
    /\ rxPc' = "idle"
    /\ attempt' = 0
    /\ rxResult' = [err |-> "none", body |-> <<>>]
    /\ rxReads' = 0
    /\ rxStale' = 0
    /\ rxBad' = FALSE
    /\ rxLast' = <<>>

Send(body, wr) ==
    /\ rxPc # "read"
    /\ LET seqNum == nextSequenceNumber(seqNo)
           fr     == Frame(seqNum, body)
       IN  /\ seqNo' = seqNum
           /\ IF fr.err # "nil"
              THEN /\ txSkip < MaxSkips
                   /\ sendErr' = fr.err
                   /\ txSkip' = txSkip + 1
                   /\ UNCHANGED <<wire, txCur, txPrev, txGap>>
              ELSE /\ wire' = fr.frame
                   /\ sendErr' = CASE wr = "err"   -> "io"
                                   [] wr = "short" -> "ErrWriteSizeIncorrect"
                                   [] OTHER        -> "nil"
                   /\ txPrev' = txCur
                   /\ txCur' = SequenceNumber(fr.frame)
                   /\ txGap' = txSkip
                   /\ txSkip' = 0
    \* a new exchange starts: the locals and the history of the last Receive are gone
    /\ rxPc' = "idle"
    /\ attempt' = 0
    /\ rxResult' = [err |-> "none", body |-> <<>>]
    /\ rxReads' = 0
    /\ rxStale' = 0
    /\ rxBad' = FALSE
    /\ rxLast' = <<>>

\* Receive, up to its loop: the buffer is allocated and attempt is 0.
ReceiveBegin ==
    /\ rxPc # "read"
    /\ rxPc' = "read"
    /\ attempt' = 0
    /\ rxResult' = [err |-> "none", body |-> <<>>]
    /\ rxReads' = 0
    /\ rxStale' = 0
    /\ rxBad' = FALSE
    /\ rxLast' = Zeros(FrameLength)
    /\ UNCHANGED <<seqNo, sendErr, wire, txCur, txPrev, txGap, txSkip>>

\* The sequence number of a stale response: the one before s in the cycle.
StaleSeq(s) == IF s <= 1 THEN SeqLimit - 1 ELSE s - 1

RxBodies == { Fill(n, 162) : n \in 0..MaxRxBody }

\* The 64 bytes a read can leave in the buffer: the awaited sequence number,
\* a stale one or 0; a body length that fits or one past the maximum.
RxPackets(s) ==
    UNION { { <<q, n>> \o d \o Zeros(FrameLength - 2 - Len(d)) :
                q \in {s, StaleSeq(s), 0},
                n \in {Len(d), MaxBodyLength + 1} } :
            d \in RxBodies }

\* What dev.Read can answer: an error, a short count, the full count.
ReadOutcomes == {"ok", "err", "short"}

\* When the mismatch counter gives up.
attemptsExhausted_late(a) == a = MaxAttempts + 1

attemptsExhausted(a) == a = MaxAttempts

\* Whether the frame answers the last request.

sequenceMatches(f, s) == SequenceNumber(f) = s

\* One iteration of Receive's loop: a read, the unframing and the
\* sequence-number test.
ReceiveRead(pkt, rd) ==
    /\ rxPc = "read"
    /\ rxReads' = rxReads + 1
    /\ rxLast' = pkt
    /\ rxStale' = IF rd = "ok" /\ pkt[2] <= MaxBodyLength /\ pkt[1] # seqNo
                  THEN rxStale + 1 ELSE rxStale
    /\ rxBad' = (rxBad \/ rd # "ok" \/ pkt[2] > MaxBodyLength)
    /\ IF rd = "err"
       THEN /\ rxResult' = [err |-> "io", body |-> <<>>]
            /\ rxPc' = "done"
            /\ UNCHANGED attempt
       ELSE IF rd = "short"
       THEN /\ rxResult' = [err |-> "ErrReadSizeIncorrect", body |-> <<>>]
            /\ rxPc' = "done"
            /\ UNCHANGED attempt
       ELSE LET respf == Unframe(pkt) IN
            IF respf.err # "nil"
            THEN /\ rxResult' = [err |-> respf.err, body |-> <<>>]
                 /\ rxPc' = "done"
                 /\ UNCHANGED attempt
            ELSE IF ~sequenceMatches(respf.frame, seqNo)
            THEN /\ attempt' = attempt + 1
                 /\ IF attemptsExhausted(attempt + 1)
                    THEN /\ rxResult' = [err |-> "ErrSequenceNumberIncorrect", body |-> <<>>]
                         /\ rxPc' = "done"
                    ELSE /\ rxPc' = "read"
                         /\ UNCHANGED rxResult
            ELSE /\ rxResult' = [err |-> "nil", body |-> Body(respf.frame)]
                 /\ rxPc' = "done"
                 /\ UNCHANGED attempt
    /\ UNCHANGED <<seqNo, sendErr, wire, txCur, txPrev, txGap, txSkip>>

DevInit ==
    /\ seqNo = 0
    /\ sendErr = "nil"
    /\ wire = <<>>
    /\ txCur = -1
    /\ txPrev = -1
    /\ txGap = 0
    /\ txSkip = 0
    /\ rxPc = "idle"
    /\ attempt = 0
    /\ rxResult = [err |-> "none", body |-> <<>>]
    /\ rxReads = 0
    /\ rxStale = 0
    /\ rxBad = FALSE
    /\ rxLast = <<>>

DevIdle == DevInit

-----------------------------------------------------------------------------
(* protocol/device.go (gousb variant): the same session run on the second  *)
(* Device implementation, call by call.                                    *)

\* Bound of the paired run.
MaxSends == 129        \* Send calls: both counters have wrapped by then

usbNextSequenceNumber(s) ==
    IF Byte(s + 1) >= SeqLimit THEN 0 ELSE Byte(s + 1)

\* The bodies and the frames of the paired run.
PairBodies == { <<>>, Fill(MaxBodyLength + 1, 255) }
PairPackets(s) ==
    { <<q, n>> \o Zeros(FrameLength - 2) :
          q \in {s, StaleSeq(s)}, n \in {0, MaxBodyLength + 1} }

UsbSend(body, wr) ==
    /\ usbSends < MaxSends
    /\ usbSends' = usbSends + 1
    /\ LET seqNum == usbNextSequenceNumber(usbSeqNo)
           fr     == Frame(seqNum, body)
       IN  /\ usbSeqNo' = seqNum
           /\ usbErr' = IF fr.err # "nil" THEN fr.err
                        ELSE CASE wr = "err"   -> "io"
                               [] wr = "short" -> "ErrWriteSizeIncorrect"
                               [] OTHER        -> "nil"
    /\ usbRes' = [err |-> "none", body |-> <<>>]

\* Receive: one read, the unframing and the sequence-number test.
usbReceive(s, pkt, rd) ==
    IF rd = "err" THEN [err |-> "io", body |-> <<>>]
    ELSE IF rd = "short" THEN [err |-> "ErrReadSizeIncorrect", body |-> <<>>]
    ELSE LET respf == Unframe(pkt) IN
         IF respf.err # "nil" THEN [err |-> respf.err, body |-> <<>>]
         ELSE IF SequenceNumber(respf.frame) # s
         THEN [err |-> "ErrSequenceNumberIncorrect", body |-> <<>>]
         ELSE [err |-> "nil", body |-> Body(respf.frame)]

\* Both devices are given the same call, with the same answer of the
\* transport.
PairSend(body, wr) == Send(body, wr) /\ UsbSend(body, wr)

PairReceiveBegin ==
    /\ ReceiveBegin
    /\ usbRes' = [err |-> "none", body |-> <<>>]
    /\ UNCHANGED <<usbSeqNo, usbErr, usbSends>>

\* Both Receive calls meet the same incoming frames: the gousb one returns
\* at the first.
PairReceiveRead(pkt, rd) ==
    /\ ReceiveRead(pkt, rd)
    /\ usbRes' = IF rxReads = 0 THEN usbReceive(usbSeqNo, pkt, rd) ELSE usbRes
    /\ UNCHANGED <<usbSeqNo, usbErr, usbSends>>

UsbInit ==
    /\ usbSeqNo = 0
    /\ usbErr = "nil"
    /\ usbRes = [err |-> "none", body |-> <<>>]
    /\ usbSends = 0

UsbIdle == UsbInit

-----------------------------------------------------------------------------
(* ihex: ReadPacket and WritePacket.  Text is a sequence of ASCII codes:   *)
(* ':' 58, LF 10, CR 13, '0'..'9' 48..57, 'A'..'F' 65..70, 'a'..'f' 97..102*)

\* Bounds of the record model.
MaxData == 2           \* longest payload enumerated byte by byte

\* hlut[n]
hlut(n) == IF n < 10 THEN 48 + n ELSE 65 + (n - 10)

\* appendHexByte: the state is the buffer and the running sum.
appendHexByte(st, b) ==
    [buf |-> st.buf \o << hlut(b \div 16), hlut(b % 16) >>,
     sum |-> Byte(st.sum + b)]

\* The 8-bit sum of data[lo..hi] (halving keeps the evaluation shallow).
RECURSIVE SumRange(_, _, _)
SumRange(data, lo, hi) ==
    IF lo > hi THEN 0
    ELSE IF lo = hi THEN data[lo]
    ELSE LET mid == (lo + hi) \div 2
         IN  Byte(SumRange(data, lo, mid) + SumRange(data, mid + 1, hi))

\* WritePacket's loop over p.Data: appendHexByte for each byte in turn.
appendHexBytes(st, data) ==
    [buf |-> st.buf \o [j \in 1..(2 * Len(data)) |->
                          IF j % 2 = 1 THEN hlut(data[(j + 1) \div 2] \div 16)
                                       ELSE hlut(data[j \div 2] % 16)],
     sum |-> Byte(st.sum + SumRange(data, 1, Len(data)))]

\* The checksum byte WritePacket appends: 0 - sum in a byte.
writeChecksum_onesComplement(sum) == Byte(255 - sum)

writeChecksum(sum) == Byte(256 - sum)

WritePacket(p) ==
    LET s0 == [buf |-> <<58>>, sum |-> 0]
        s1 == appendHexByte(s0, Byte(Len(p.Data)))
        s2 == appendHexByte(s1, Byte(p.Address \div 256))
        s3 == appendHexByte(s2, Byte(p.Address))
        s4 == appendHexByte(s3, Byte(p.Type))
        s5 == appendHexBytes(s4, p.Data)
        s6 == appendHexByte(s5, writeChecksum(s5.sum))
    IN  s6.buf \o <<10>>

DataPacket(addr, data) == [Type |-> 0, Address |-> addr, Data |-> data]
EOFPacket == [Type |-> 1, Address |-> 0, Data |-> <<>>]
ExtendedLinearAddressPacket(seg) ==
    [Type |-> 4, Address |-> 0, Data |-> << Byte(seg \div 256), Byte(seg) >>]
NoPacket == [Type |-> 0, Address |-> 0, Data |-> <<>>]

\* The value of one hex digit, -1 when it is none.
nibble(c) ==
    IF c >= 48 /\ c <= 57 THEN c - 48
    ELSE IF c >= 65 /\ c <= 70 THEN c - 65 + 10
    ELSE IF c >= 97 /\ c <= 102 THEN c - 97 + 10
    ELSE -1

\* readHexByte on the rest of the stream: [err, b, rest].  Both characters
\* are read before either is looked at.
readHexByte(text) ==
    IF Len(text) = 0 THEN [err |-> "EOF", b |-> 0, rest |-> text]
    ELSE IF Len(text) = 1 THEN [err |-> "EOF", b |-> 0, rest |-> <<>>]
    ELSE LET n0 == nibble(text[1])
             n1 == nibble(text[2])
             rest == SubSeq(text, 3, Len(text))
         IN  IF n0 = -1 \/ n1 = -1
             THEN [err |-> "ErrInvalidHex", b |-> 0, rest |-> rest]
             ELSE [err |-> "nil", b |-> n0 * 16 + n1, rest |-> rest]

\* readHexWord: [err, w, rest].
readHexWord(text) ==
    LET r0 == readHexByte(text) IN
    IF r0.err # "nil" THEN [err |-> r0.err, w |-> 0, rest |-> r0.rest]
    ELSE LET r1 == readHexByte(r0.rest) IN
         IF r1.err # "nil" THEN [err |-> r1.err, w |-> 0, rest |-> r1.rest]
         ELSE [err |-> "nil", w |-> r0.b * 256 + r1.b, rest |-> r1.rest]

\* ReadPacket's prefix loop: [err, rest].
RECURSIVE readPrefix(_)
readPrefix(text) ==
    IF Len(text) = 0 THEN [err |-> "EOF", rest |-> text]
    ELSE IF text[1] = 10 \/ text[1] = 13 THEN readPrefix(Tail(text))
    ELSE IF text[1] = 58 THEN [err |-> "nil", rest |-> Tail(text)]
    ELSE [err |-> "ErrInvalidPrefix", rest |-> Tail(text)]

\* ReadPacket's payload loop: n more bytes by readHexByte, stopping at the
\* first that fails: [err, buf, sum, rest].
readPayload(text, n, sum) ==
    LET okAt(k) == /\ 2 * k <= Len(text)
                   /\ nibble(text[2 * k - 1]) # -1
                   /\ nibble(text[2 * k]) # -1
        bad == { k \in 1..n : ~okAt(k) }
    IN  IF bad = {}
        THEN LET buf == [k \in 1..n |-> nibble(text[2 * k - 1]) * 16 + nibble(text[2 * k])]
             IN  [err |-> "nil", buf |-> buf,
                  sum |-> Byte(sum + SumRange(buf, 1, n)),
                  rest |-> SubSeq(text, 2 * n + 1, Len(text))]
        ELSE LET k == CHOOSE j \in bad : \A i \in bad : j <= i
             IN  IF 2 * k > Len(text)
                 THEN [err |-> "EOF", buf |-> <<>>, sum |-> sum, rest |-> <<>>]
                 ELSE [err |-> "ErrInvalidHex", buf |-> <<>>, sum |-> sum,
                       rest |-> SubSeq(text, 2 * k + 1, Len(text))]

\* -expsum != recsum, negated.
checksumOk_always(expsum, recsum) == TRUE

checksumOk(expsum, recsum) == Byte(256 - expsum) = recsum

\* ReadPacket's end: the byte after the checksum, [err, rest].
readTerminator(text) ==
    IF Len(text) = 0 THEN [err |-> "nil", rest |-> text]
    ELSE IF text[1] = 13 \/ text[1] = 10 THEN [err |-> "nil", rest |-> Tail(text)]
    ELSE [err |-> "ErrInvalidEOL", rest |-> Tail(text)]

Failed(e, rest) == [err |-> e, pkt |-> NoPacket, rest |-> rest]

\* ReadPacket: [err, pkt, rest].
ReadPacket(text) ==
    LET pf == readPrefix(text) IN
    IF pf.err # "nil" THEN Failed(pf.err, pf.rest) ELSE
    LET ln == readHexByte(pf.rest) IN
    IF ln.err # "nil" THEN Failed(ln.err, ln.rest) ELSE
    LET ad == readHexWord(ln.rest) IN
    IF ad.err # "nil" THEN Failed(ad.err, ad.rest) ELSE
    LET pt == readHexByte(ad.rest) IN
    IF pt.err # "nil" THEN Failed(pt.err, pt.rest) ELSE
    LET expsum == Byte(ln.b + Byte(ad.w \div 256) + Byte(ad.w) + pt.b)
        pl == readPayload(pt.rest, ln.b, expsum)
    IN
    IF pl.err # "nil" THEN Failed(pl.err, pl.rest) ELSE
    LET rs == readHexByte(pl.rest) IN
    IF rs.err # "nil" THEN Failed(rs.err, rs.rest) ELSE
    IF ~checksumOk(pl.sum, rs.b) THEN Failed("ErrInvalidChecksum", rs.rest) ELSE
    LET tm == readTerminator(rs.rest) IN
    IF tm.err # "nil" THEN Failed(tm.err, tm.rest) ELSE
    [err |-> "nil",
     pkt |-> [Type |-> pt.b, Address |-> ad.w, Data |-> pl.buf],
     rest |-> tm.rest]

\* The records written: every type, addresses at both ends of the 16-bit
\* range, payloads of up to MaxData bytes and one payload of 255 bytes.
HexBytes == {0, 170, 255}
HexAddresses == {0, 16, 65535}

RECURSIVE SeqsUpTo(_, _)
SeqsUpTo(S, n) ==
    IF n = 0 THEN { <<>> }
    ELSE LET shorter == SeqsUpTo(S, n - 1)
         IN  shorter \cup { Append(q, b) : q \in { r \in shorter : Len(r) = n - 1 }, b \in S }

HexPackets ==
    [Type : 0..5, Address : HexAddresses, Data : SeqsUpTo(HexBytes, MaxData)]
    \cup { [Type |-> 0, Address |-> 4660, Data |-> Fill(255, 1)] }

\* What follows the record in the stream: nothing, or an EndOfFile record.
HexTails == { <<>>, WritePacket(EOFPacket) }

HexInit ==
    /\ hxPc = "new"
    /\ hxPkt \in HexPackets
    /\ hxTail \in HexTails
    /\ hxText = <<>>
    /\ hxFlip = [idx |-> -1, bit |-> 0]
    /\ hxRes = Failed("none", <<>>)

HexIdle ==
    /\ hxPc = "off"
    /\ hxPkt = NoPacket
    /\ hxTail = <<>>
    /\ hxText = <<>>
    /\ hxFlip = [idx |-> -1, bit |-> 0]
    /\ hxRes = Failed("none", <<>>)

\* WritePacket(w, p): the record's text goes to the stream.
HexWrite ==
    /\ hxPc = "new"
    /\ hxText' = WritePacket(hxPkt) \o hxTail
    /\ hxPc' = "written"
    /\ UNCHANGED <<hxPkt, hxTail, hxFlip, hxRes>>

\* ReadPacket(rdr) on the stream as written.
HexRead ==
    /\ hxPc = "written"
    /\ hxRes' = ReadPacket(hxText)
    /\ hxPc' = "read"
    /\ UNCHANGED <<hxPkt, hxTail, hxText, hxFlip>>

\* Byte i of the record (0 length, 1 and 2 address, 3 type, 4.. payload).
RecordByte(p, i) ==
    CASE i = 0 -> Byte(Len(p.Data))
      [] i = 1 -> Byte(p.Address \div 256)
      [] i = 2 -> Byte(p.Address)
      [] i = 3 -> Byte(p.Type)
      [] OTHER -> p.Data[i - 3]

RECURSIVE Pow2(_)
Pow2(k) == IF k = 0 THEN 1 ELSE 2 * Pow2(k - 1)

FlipBit(b, k) == IF (b \div Pow2(k)) % 2 = 1 THEN b - Pow2(k) ELSE b + Pow2(k)

\* The stream is corrupted before it is read: one bit of one header or
\* payload byte is flipped, the checksum characters stay as written.
HexFlip(i, k) ==
    /\ hxPc = "written"
    /\ i <= 3 + Len(hxPkt.Data)
    /\ LET b == FlipBit(RecordByte(hxPkt, i), k)
       IN  hxText' = [hxText EXCEPT ![2 + 2 * i] = hlut(b \div 16),
                                    ![3 + 2 * i] = hlut(b % 16)]
    /\ hxFlip' = [idx |-> i, bit |-> k]
    /\ hxPc' = "flipped"
    /\ UNCHANGED <<hxPkt, hxTail, hxRes>>

\* ReadPacket(rdr) on the corrupted stream.
HexReadFlipped ==
    /\ hxPc = "flipped"
    /\ hxRes' = ReadPacket(hxText)
    /\ hxPc' = "readflipped"
    /\ UNCHANGED <<hxPkt, hxTail, hxText, hxFlip>>

\* Payload bytes whose bits are flipped: all those of a short payload, the
\* first MaxData + 1 and the last of the long one.
FlipIndexes == 0..(4 + MaxData) \cup {3 + 255}

-----------------------------------------------------------------------------
(* ihex.Writer: write (one record, with the segment switch) and Write (the *)
(* split of a buffer into chunks).                                         *)

\* Bounds of the writer model.
MaxWrites == 2         \* Write calls on one Writer

\* A uint32 is the pair of its 16-bit halves, [hi, lo]; the arithmetic
\* below is modulo 2^32.
U16(n) == n % 65536
Word32(hi, lo) == [hi |-> hi, lo |-> lo]
Add32(a, n) == [hi |-> U16(a.hi + ((a.lo + n) \div 65536)), lo |-> U16(a.lo + n)]
Sub32(a, b) ==
    [hi |-> U16(a.hi - b.hi - (IF a.lo < b.lo THEN 1 ELSE 0)), lo |-> U16(a.lo - b.lo)]

\* One WritePacket(w.w, p) of Writer.write: st is [seg, out, abs, failed,
\* err, left]; left counts the sink writes that still succeed (-1: no
\* failure is due).  A failed write emits nothing; the sink stays failed.
emit(st, p, a) ==
    IF st.failed \/ st.left = 0
    THEN [st EXCEPT !.failed = TRUE, !.err = "io"]
    ELSE [st EXCEPT !.out = Append(@, p), !.abs = Append(@, a),
                    !.left = IF @ > 0 THEN @ - 1 ELSE @]

\* The test that makes write start a new segment: off > 0xFFFF for the
\* unsigned off := addr - w.seg.
needsNewSegment_forward(addr, seg) == addr.hi > seg.hi

needsNewSegment(addr, seg) == Sub32(addr, seg).hi # 0

NoAddress == Word32(-1, -1)

\* Writer.write(addr, buf).
write(st, addr, buf) ==
    IF Len(buf) = 0 \/ st.err # "nil" THEN st
    ELSE IF needsNewSegment(addr, st.seg)
    THEN LET seg == Word32(addr.hi, 0)
             off == Sub32(addr, seg)
             s1 == emit([st EXCEPT !.seg = seg],
                        ExtendedLinearAddressPacket(seg.hi), NoAddress)
         IN  IF s1.err # "nil" THEN s1
             ELSE emit(s1, DataPacket(off.lo, buf), addr)
    ELSE emit(st, DataPacket(Sub32(addr, st.seg).lo, buf), addr)

\* Writer.Write's loop of full chunks: the rounds lo..hi of it, round k
\* writing buf[32k : 32k+32] at addr + 32k; write does nothing once a
\* round has failed.
RECURSIVE loopRounds(_, _, _, _, _)
loopRounds(st, addr, buf, lo, hi) ==
    IF lo > hi THEN st
    ELSE IF lo = hi
    THEN write(st, Add32(addr, 32 * lo), SubSeq(buf, 32 * lo + 1, 32 * lo + 32))
    ELSE With(loopRounds(st, addr, buf, lo, (lo + hi) \div 2),
              LAMBDA s1 : loopRounds(s1, addr, buf, (lo + hi) \div 2 + 1, hi))

\* Writer.Write's loop of full chunks, then the last write.
writeChunks(st, addr, buf) ==
    LET rounds == IF Len(buf) > 32 THEN (Len(buf) - 1) \div 32 ELSE 0
    IN  With(loopRounds(st, addr, buf, 0, rounds - 1),
             LAMBDA s1 : write(s1, Add32(addr, 32 * rounds),
                               SubSeq(buf, 32 * rounds + 1, Len(buf))))

\* Writer.Write(addr, buf) from state st.
WriterWrite_noLead(st, addr, buf) == writeChunks(st, addr, buf)

WriterWrite(st, addr, buf) ==
    LET lead == 32 - (addr.lo % 32)
    IN  IF addr.lo % 32 # 0 /\ Len(buf) > lead
        THEN writeChunks(write(st, addr, SubSeq(buf, 1, lead)),
                         Add32(addr, lead), SubSeq(buf, lead + 1, Len(buf)))
        ELSE writeChunks(st, addr, buf)

\* Addresses and buffer lengths Write is called with: both sides of a 64KB
\* boundary, the configuration offset 0x30000, the top of the address space.
WriteAddresses ==
    { Word32(0, 0), Word32(0, 65519), Word32(0, 65520), Word32(3, 0),
      Word32(65535, 65520) }
WriteLengths == {0, 1, 32, 33, 40, 70}
Buffer(n) == [i \in 1..n |-> i]

\* Which sink write of a call fails: 0 none, k the k-th.
SinkFailures == {0, 1, 2}

WriterInit ==
    /\ wSeg = Word32(0, 0)
    /\ wOut = <<>>
    /\ wAbs = <<>>
    /\ wFailed = FALSE
    /\ wErr = "nil"
    /\ wCalls = 0
    /\ wAddr = Word32(0, 0)
    /\ wLen = 0
    /\ wFrom = 0

WriterIdle == WriterInit

Write(addr, n, failAt) ==
    /\ wCalls < MaxWrites
    /\ LET st == WriterWrite([seg |-> wSeg, out |-> wOut, abs |-> wAbs,
                              failed |-> wFailed, err |-> "nil",
                              left |-> IF failAt = 0 THEN -1 ELSE failAt - 1],
                             addr, Buffer(n))
       IN  /\ wSeg' = st.seg
           /\ wOut' = st.out
           /\ wAbs' = st.abs
           /\ wFailed' = st.failed
           /\ wErr' = st.err
    /\ wCalls' = wCalls + 1
    /\ wAddr' = addr
    /\ wLen' = n
    /\ wFrom' = Len(wOut)

-----------------------------------------------------------------------------
(* n76.N76E003Config: the enumerations, UnmarshalBinary, MarshalBinary and   *)
(* GetLDROMSize.                                                           *)

BootFromLDROM == 0
BootFromAPROM == 1

N76E003LDROM0KB == 0
N76E003LDROM1KB == 1
N76E003LDROM2KB == 2
N76E003LDROM3KB == 3
N76E003LDROM4KB == 4

BODVoltage4v4 == 0
BODVoltage3v7 == 1
BODVoltage2v7 == 2
BODVoltage2v2 == 3

WDTDisabled == 0
WDTEnabled == 1
WDTEnabledAlways == 2

\* The zero value of N76E003Config.
ZeroConfig ==
    [BootSelect |-> 0, PWMEnabledDuringOCD |-> FALSE, OCDEnabled |-> FALSE,
     ResetPinDisabled |-> FALSE, Locked |-> FALSE, LDROMSize |-> 0,
     BODDisabled |-> FALSE, BODVoltage |-> 0, IAPEnabledInBrownout |-> FALSE,
     BODResetDisabled |-> FALSE, WDT |-> 0]

\* buf[i] & mask == 0 on the 0-based byte i.
bitClear(buf, i, mask) == BitAnd(buf[i + 1], mask) = 0

\* The switch on buf[1] & 0x7.
unmarshalLDROMSize_complement(code) == 7 - code

unmarshalLDROMSize(code) ==
    CASE code = 7 -> N76E003LDROM0KB
      [] code = 6 -> N76E003LDROM1KB
      [] code = 5 -> N76E003LDROM2KB
      [] code = 4 -> N76E003LDROM3KB
      [] OTHER -> N76E003LDROM4KB

\* The switch on (buf[2] >> 4) & 0x3.
unmarshalBODVoltage(code) ==
    CASE code = 0 -> BODVoltage4v4
      [] code = 1 -> BODVoltage3v7
      [] code = 2 -> BODVoltage2v7
      [] OTHER -> BODVoltage2v2

\* The switch on buf[3] >> 4.
unmarshalWDT(code) ==
    CASE code = 15 -> WDTDisabled
      [] code = 5 -> WDTEnabled
      [] OTHER -> WDTEnabledAlways

\* UnmarshalBinary(buf) on the configuration cfg: [err, cfg].
UnmarshalBinary(cfg, buf) ==
    IF Len(buf) < 4 THEN [err |-> "short", cfg |-> cfg]
    ELSE [err |-> "nil",
          cfg |-> [BootSelect |-> IF bitClear(buf, 0, 128)
                                  THEN BootFromLDROM ELSE BootFromAPROM,
                   PWMEnabledDuringOCD |-> bitClear(buf, 0, 32),
                   OCDEnabled |-> bitClear(buf, 0, 16),
                   ResetPinDisabled |-> bitClear(buf, 0, 4),
                   Locked |-> bitClear(buf, 0, 2),
                   LDROMSize |-> unmarshalLDROMSize(BitAnd(buf[2], 7)),
                   BODDisabled |-> bitClear(buf, 2, 128),
                   BODVoltage |-> unmarshalBODVoltage(BitAnd(buf[3] \div 16, 3)),
                   IAPEnabledInBrownout |-> bitClear(buf, 2, 8),
                   BODResetDisabled |-> bitClear(buf, 2, 4),
                   WDT |-> unmarshalWDT(buf[4] \div 16)]]

\* if cond { b &= mask }
clearIf(b, cond, mask) == IF cond THEN BitAnd(b, mask) ELSE b

\* The switch on cfg.LDROMSize (no arm: the byte stays 0xFF).
marshalLDROMSize(size) ==
    CASE size = N76E003LDROM0KB -> 255
      [] size = N76E003LDROM1KB -> 254
      [] size = N76E003LDROM2KB -> 253
      [] size = N76E003LDROM3KB -> 252
      [] size = N76E003LDROM4KB -> 251
      [] OTHER -> 255

\* The switch on cfg.BODVoltage: the mask and-ed into buf[2].
marshalBODVoltage(v) ==
    CASE v = BODVoltage4v4 -> 207
      [] v = BODVoltage3v7 -> 223
      [] v = BODVoltage2v7 -> 239
      [] OTHER -> 255

\* The switch on cfg.WDT (no arm: the byte stays 0xFF).
marshalWDT_enabled4F(w) ==
    CASE w = WDTDisabled -> 255
      [] w = WDTEnabled -> 79
      [] w = WDTEnabledAlways -> 15
      [] OTHER -> 255

marshalWDT(w) ==
    CASE w = WDTDisabled -> 255
      [] w = WDTEnabled -> 95
      [] w = WDTEnabledAlways -> 15
      [] OTHER -> 255

\* The bytes MarshalBinary builds, before its check.
marshalBytes(cfg) ==
    LET b0 == clearIf(clearIf(clearIf(clearIf(clearIf(255,
                  cfg.BootSelect = BootFromLDROM, 127),
                  cfg.PWMEnabledDuringOCD, 223),
                  cfg.OCDEnabled, 239),
                  cfg.ResetPinDisabled, 251),
                  cfg.Locked, 253)
        b2 == clearIf(clearIf(BitAnd(clearIf(255, cfg.BODDisabled, 127),
                                     marshalBODVoltage(cfg.BODVoltage)),
                  cfg.IAPEnabledInBrownout, 247),
                  cfg.BODResetDisabled, 251)
    IN  <<b0, marshalLDROMSize(cfg.LDROMSize), b2, marshalWDT(cfg.WDT),
          255, 255, 255, 255>>

\* MarshalBinary: [err, buf]; "panic" is the abort of the round-trip check.
MarshalBinary_unchecked(cfg) == [err |-> "nil", buf |-> marshalBytes(cfg)]

MarshalBinary(cfg) ==
    LET buf == marshalBytes(cfg)
        back == UnmarshalBinary(ZeroConfig, buf)
    IN  IF back.err # "nil" THEN [err |-> back.err, buf |-> <<>>]
        ELSE IF back.cfg # cfg THEN [err |-> "panic", buf |-> <<>>]
        ELSE [err |-> "nil", buf |-> buf]

\* GetLDROMSize: [err, size].
GetLDROMSize(cfg) ==
    CASE cfg.LDROMSize = N76E003LDROM0KB -> [err |-> "nil", size |-> 0]
      [] cfg.LDROMSize = N76E003LDROM1KB -> [err |-> "nil", size |-> 1024]
      [] cfg.LDROMSize = N76E003LDROM2KB -> [err |-> "nil", size |-> 2048]
      [] cfg.LDROMSize = N76E003LDROM3KB -> [err |-> "nil", size |-> 3072]
      [] cfg.LDROMSize = N76E003LDROM4KB -> [err |-> "nil", size |-> 4096]
      [] OTHER -> [err |-> "panic", size |-> 0]

\* The configurations whose fields hold defined values.
DefinedConfigs ==
    [BootSelect : {BootFromLDROM, BootFromAPROM},
     PWMEnabledDuringOCD : BOOLEAN, OCDEnabled : BOOLEAN,
     ResetPinDisabled : BOOLEAN, Locked : BOOLEAN,
     LDROMSize : N76E003LDROM0KB..N76E003LDROM4KB,
     BODDisabled : BOOLEAN, BODVoltage : BODVoltage4v4..BODVoltage2v2,
     IAPEnabledInBrownout : BOOLEAN, BODResetDisabled : BOOLEAN,
     WDT : WDTDisabled..WDTEnabledAlways]

\* Configurations with a field outside its enumeration: the fields are
\* bytes, and a caller can set any value.
BaseConfigs ==
    { ZeroConfig,
      [ZeroConfig EXCEPT !.BootSelect = BootFromAPROM, !.Locked = TRUE,
                         !.LDROMSize = N76E003LDROM2KB, !.BODVoltage = BODVoltage2v7,
                         !.WDT = WDTEnabled] }
UndefinedConfigs ==
    UNION { { [c EXCEPT !.BootSelect = 2], [c EXCEPT !.BootSelect = 255],
              [c EXCEPT !.LDROMSize = 5], [c EXCEPT !.LDROMSize = 7],
              [c EXCEPT !.BODVoltage = 4], [c EXCEPT !.WDT = 3],
              [c EXCEPT !.BootSelect = 2, !.LDROMSize = 5, !.BODVoltage = 4, !.WDT = 3] } :
            c \in BaseConfigs }

\* How many of the marshalled bytes are handed to UnmarshalBinary.
ConfigLengths == {3, 4, 8}

\* The bytes UnmarshalBinary is given by a caller: every length from 0 to
\* 5 and 8, every size code under three settings of the other bits of
\* byte 1.
ConfigBytes ==
    { <<b0, 8 * k + code, b2, b3>> :
        b0 \in {255, 0}, k \in {0, 1, 31}, code \in 0..7, b2 \in {255, 0}, b3 \in {255, 95} }
DecodedBuffers ==
    { SubSeq(<<255, 253, 255>>, 1, n) : n \in 0..3 } \cup ConfigBytes \cup
    { b \o <<255>> : b \in ConfigBytes } \cup
    { b \o <<255, 255, 255, 255>> : b \in ConfigBytes }

NoSize == [err |-> "none", size |-> 0]

CfgInit ==
    /\ cfPc = "new"
    /\ cfIn \in DefinedConfigs \cup UndefinedConfigs
    /\ cfBuf = <<>>
    /\ cfErr = "nil"
    /\ cfOut = ZeroConfig
    /\ cfLen = 0
    /\ cfSize = NoSize

CfgIdle ==
    /\ cfPc = "off"
    /\ cfIn = ZeroConfig
    /\ cfBuf = <<>>
    /\ cfErr = "nil"
    /\ cfOut = ZeroConfig
    /\ cfLen = 0
    /\ cfSize = NoSize

CfgMarshal ==
    /\ cfPc = "new"
    /\ LET r == MarshalBinary(cfIn)
       IN  /\ cfBuf' = r.buf
           /\ cfErr' = r.err
    /\ cfPc' = "marshalled"
    /\ UNCHANGED <<cfIn, cfOut, cfLen, cfSize>>

CfgUnmarshal(n) ==
    /\ cfPc = "marshalled"
    /\ cfErr = "nil"
    /\ LET r == UnmarshalBinary(ZeroConfig, SubSeq(cfBuf, 1, n))
       IN  /\ cfOut' = r.cfg
           /\ cfErr' = r.err
    /\ cfPc' = "unmarshalled"
    /\ cfLen' = n
    /\ UNCHANGED <<cfIn, cfBuf, cfSize>>

\* UnmarshalBinary(buf) on a new configuration, as ConfigSpace.Decode and
\* the commands call it.
CfgDecode(buf) ==
    /\ cfPc = "new"
    /\ cfIn = ZeroConfig
    /\ LET r == UnmarshalBinary(cfIn, buf)
       IN  /\ cfOut' = r.cfg
           /\ cfErr' = r.err
    /\ cfBuf' = buf
    /\ cfLen' = Len(buf)
    /\ cfPc' = "decoded"
    /\ UNCHANGED <<cfIn, cfSize>>

\* GetLDROMSize on the configuration UnmarshalBinary filled.
CfgGetLDROMSize ==
    /\ cfPc \in {"unmarshalled", "decoded"}
    /\ cfErr = "nil"
    /\ cfSize = NoSize
    /\ cfSize' = GetLDROMSize(cfOut)
    /\ UNCHANGED <<cfPc, cfIn, cfBuf, cfErr, cfOut, cfLen>>

-----------------------------------------------------------------------------
(* ihex.Reader.Next and cmd.TargetData: read, APROM, LDROM, for the target  *)
(* n76.N76E003.                                                            *)

\* Bounds of the image model.
MaxRecords == 2        \* records in one block source

ProgMemSize == 12 * 1024
IHexOffset == Word32(3, 0)

\* A block source: the records ReadPacket returns one after the other, and
\* the error it returns once they are used up.
Source(pkts, end) == [pkts |-> pkts, end |-> end]

NoBlock == [Address |-> Word32(0, 0), Data |-> <<>>]

\* r.seg as an extension record p sets it: the segment address shifted by
\* 4 bits, the linear address by 16.
segmentBase_linearOnly(p) == Word32(p.Data[1] * 256 + p.Data[2], 0)

segmentBase(p) ==
    IF p.Type = 4 THEN Word32(p.Data[1] * 256 + p.Data[2], 0)
    ELSE LET v == p.Data[1] * 4096 + p.Data[2] * 16
         IN  Word32(v \div 65536, v % 65536)

\* len(p.Data) != 2 on an extension record.
lengthError_shortOnly(p) == Len(p.Data) < 2

lengthError(p) == Len(p.Data) # 2

\* r.eof = true
markEOF_forget(r) == r

markEOF(r) == [r EXCEPT !.eof = TRUE]

\* Reader.Next on the reader r = [seg, eof]: [err, block, r, src].
RECURSIVE ReaderNext(_, _)
ReaderNext(r, src) ==
    IF r.eof THEN [err |-> "EOF", block |-> NoBlock, r |-> r, src |-> src]
    ELSE IF src.pkts = <<>>
    THEN [err |-> src.end, block |-> NoBlock, r |-> r, src |-> src]
    ELSE LET p == Head(src.pkts)
             rest == [src EXCEPT !.pkts = Tail(@)]
         IN  CASE p.Type = 0 ->
                    [err |-> "nil",
                     block |-> [Address |-> Add32(r.seg, p.Address), Data |-> p.Data],
                     r |-> r, src |-> rest]
               [] p.Type = 1 ->
                    [err |-> "EOF", block |-> NoBlock,
                     r |-> markEOF(r), src |-> rest]
               [] p.Type = 2 ->
                    IF lengthError(p)
                    THEN [err |-> "ErrInvalidRecordLength", block |-> NoBlock,
                          r |-> r, src |-> rest]
                    ELSE ReaderNext([r EXCEPT !.seg = segmentBase(p)], rest)
               [] p.Type = 4 ->
                    IF lengthError(p)
                    THEN [err |-> "ErrInvalidRecordLength", block |-> NoBlock,
                          r |-> r, src |-> rest]
                    ELSE ReaderNext([r EXCEPT !.seg = segmentBase(p)], rest)
               [] OTHER -> ReaderNext(r, rest)

\* The first case of read's switch: b.Address+uint32(len(b.Data)) <= length.
blockFits_unbounded(b, length) == b.Address.hi = 0 /\ b.Address.lo + Len(b.Data) <= length

blockFits(b, length) ==
    LET sum == Add32(b.Address, Len(b.Data))
    IN  sum.hi = 0 /\ sum.lo <= length

\* copy(d.Data[at:], data) on the stored bytes.
copyInto_shifted(data, at, src) ==
    [i \in (at + 1)..(at + Len(src)) |-> src[i - at]] @@ data

copyInto(data, at, src) ==
    LET n == IF Len(src) <= ProgMemSize - at THEN Len(src) ELSE ProgMemSize - at
    IN  [i \in at..(at + n - 1) |-> src[i - at + 1]] @@ data

\* The switch of TargetData.read on the block b; d is [Data, Config, err,
\* log], and d.err says how the switch ended.
applyBlock(d, b, offset, length, config) ==
    LET entry == [addr |-> b.Address, len |-> Len(b.Data)]
    IN  IF blockFits(b, length)
        THEN LET at == Add32(b.Address, offset)
             IN  IF at.hi # 0 \/ at.lo > ProgMemSize
                 THEN [d EXCEPT !.err = "panic",
                                !.log = Append(@, entry @@ [how |-> "panic", at |-> -1])]
                 ELSE [d EXCEPT !.Data = copyInto(@, at.lo, b.Data),
                                !.log = Append(@, entry @@ [how |-> "copy", at |-> at.lo])]
        ELSE IF b.Address = IHexOffset /\ config
        THEN [d EXCEPT !.Config = b.Data,
                       !.log = Append(@, entry @@ [how |-> "config", at |-> -1])]
        ELSE [d EXCEPT !.err = "range",
                       !.log = Append(@, entry @@ [how |-> "range", at |-> -1])]

\* What the loop of TargetData.read does with the record p of the input:
\* st is [d, r, done], done once read has returned.  Next reads on as long
\* as the records return no block ("more": p is used up).
readRecord(st, p, offset, length, config) ==
    IF st.done THEN st
    ELSE With(ReaderNext(st.r, Source(<<p>>, "more")), LAMBDA nx :
           IF nx.err = "more" THEN [st EXCEPT !.r = nx.r]
           ELSE IF nx.err # "nil"
           THEN [d |-> [st.d EXCEPT !.err = IF nx.err = "EOF" THEN "nil" ELSE nx.err],
                 r |-> nx.r, done |-> TRUE]
           ELSE With(applyBlock(st.d, nx.block, offset, length, config), LAMBDA d1 :
                  [d |-> d1, r |-> nx.r, done |-> d1.err # "nil"]))

\* readRecord on the records lo..hi of the input in turn (halving keeps the
\* evaluation shallow).
RECURSIVE readRecords(_, _, _, _, _, _, _)
readRecords(st, pkts, lo, hi, offset, length, config) ==
    IF lo > hi \/ st.done THEN st
    ELSE IF lo = hi THEN readRecord(st, pkts[lo], offset, length, config)
    ELSE With(readRecords(st, pkts, lo, (lo + hi) \div 2, offset, length, config),
              LAMBDA s1 : readRecords(s1, pkts, (lo + hi) \div 2 + 1, hi,
                                      offset, length, config))

\* The loop of TargetData.read over the blocks of hrd, the input being the
\* records src.pkts and then the error src.end.
readBlocks(d, r, src, offset, length, config) ==
    With(readRecords([d |-> d, r |-> r, done |-> FALSE], src.pkts, 1, Len(src.pkts),
                     offset, length, config),
         LAMBDA st :
           IF st.done THEN st.d
           ELSE [st.d EXCEPT !.err = IF src.end = "EOF" THEN "nil" ELSE src.end])

\* TargetData.read(rd, offset, length, config, kind).
read(d, src, offset, length, config) ==
    readBlocks(d, [seg |-> Word32(0, 0), eof |-> FALSE], src, offset, length, config)

\* ConfigSpace.Decode.
Decode_padded(buf) == UnmarshalBinary(ZeroConfig, buf \o <<255, 255, 255, 255>>)

Decode(buf) == UnmarshalBinary(ZeroConfig, buf)

\* ProgMemSize - cfg.GetLDROMSize().
apromSize_loaderFirst(ldromSz) == ldromSz

apromSize(ldromSz) == ProgMemSize - ldromSz

NilSlice == [called |-> TRUE, err |-> "nil", isNil |-> TRUE, lo |-> 0, hi |-> 0]
NotCalled == [called |-> FALSE, err |-> "nil", isNil |-> TRUE, lo |-> 0, hi |-> 0]
Slice(lo, hi) == [called |-> TRUE, err |-> "nil", isNil |-> FALSE, lo |-> lo, hi |-> hi]

\* TargetData.APROM(): the slice d.Data[lo:hi].
APROM(config) ==
    LET dec == Decode(config)
    IN  IF dec.err # "nil" THEN [NilSlice EXCEPT !.err = dec.err]
        ELSE Slice(0, apromSize(GetLDROMSize(dec.cfg).size))

\* TargetData.LDROM().
LDROM(config) ==
    LET dec == Decode(config)
        apsize == apromSize(GetLDROMSize(dec.cfg).size)
    IN  IF dec.err # "nil" THEN [NilSlice EXCEPT !.err = dec.err]
        ELSE IF apsize # ProgMemSize THEN Slice(apsize, ProgMemSize)
        ELSE NilSlice

\* The records of the block sources: data at the start and at the end of
\* program memory, at the top of a segment, and the address records that
\* move the base to the configuration offset and to the last segment.
SourceData == <<255, 253, 255, 255, 255, 255, 255, 255>>
SourcePackets ==
    { DataPacket(0, SubSeq(SourceData, 1, 4)),
      DataPacket(12284, SubSeq(SourceData, 1, 4)),
      DataPacket(12284, SourceData),
      DataPacket(65528, SourceData),
      ExtendedLinearAddressPacket(3),
      ExtendedLinearAddressPacket(65535),
      [Type |-> 4, Address |-> 0, Data |-> <<3>>],
      [Type |-> 2, Address |-> 0, Data |-> <<48, 0>>],
      [Type |-> 5, Address |-> 0, Data |-> <<0, 0, 0, 0>>],
      EOFPacket }
SourceEnds == {"EOF", "ErrInvalidChecksum"}
Sources ==
    { Source(pkts, end) : pkts \in SeqsUpTo(SourcePackets, MaxRecords), end \in SourceEnds }

\* The configuration bytes an image starts with: none, too few, and the
\* loader size codes.
InitialConfigs ==
    { <<>>, <<255, 255, 255>> } \cup
    { <<255, b1, 255, 255>> : b1 \in {255, 254, 253, 252, 251, 248} } \cup
    { <<127, 253, 255, 255, 255, 255, 255, 255>> }

\* The records ReadPacket returns from a text one after the other, and the
\* error that ends them: what Reader.Next sees of the file.
RECURSIVE sourceOf(_)
sourceOf(text) ==
    With(ReadPacket(text), LAMBDA r :
        IF r.err # "nil" THEN Source(<<>>, r.err)
        ELSE With(sourceOf(r.rest), LAMBDA s : Source(<<r.pkt>> \o s.pkts, s.end)))

\* A file given as text: the records written by WritePacket one after the
\* other, cut off after cut bytes.
RECURSIVE TextOf(_)
TextOf(recs) == IF recs = <<>> THEN <<>> ELSE WritePacket(Head(recs)) \o TextOf(Tail(recs))
FileText(f) == SubSeq(TextOf(f.recs), 1, f.cut)
NoText == [recs |-> <<>>, cut |-> -1]
FileRecords ==
    { <<DataPacket(0, <<1, 2>>), EOFPacket>>,
      <<DataPacket(16, <<170>>)>>,
      <<ExtendedLinearAddressPacket(0), DataPacket(0, <<253>>)>> }
TextFiles ==
    UNION { { [recs |-> recs, cut |-> n] : n \in 0..Len(TextOf(recs)) } : recs \in FileRecords }

\* NewTargetData, with the configuration bytes in place.
TdInit ==
    /\ tdPc = "new"
    /\ tdData = <<>>
    /\ tdConfig \in InitialConfigs
    /\ tdErr = "nil"
    /\ tdOffset = 0
    /\ tdLength = 0
    /\ tdLog = <<>>
    /\ tdAPROM = NotCalled
    /\ tdLDROM = NotCalled
    /\ tdText = NoText

TdIdle ==
    /\ tdPc = "off"
    /\ tdData = <<>>
    /\ tdConfig = <<>>
    /\ tdErr = "nil"
    /\ tdOffset = 0
    /\ tdLength = 0
    /\ tdLog = <<>>
    /\ tdAPROM = NotCalled
    /\ tdLDROM = NotCalled
    /\ tdText = NoText

\* One d.read call, with data the stored bytes it starts from.
TdReadFrom(data, src, offset, length) ==
    /\ LET d == read([Data |-> data, Config |-> tdConfig, err |-> "nil", log |-> <<>>],
                     src, offset, length, TRUE)
       IN  /\ tdData' = d.Data
           /\ tdConfig' = d.Config
           /\ tdErr' = d.err
           /\ tdLog' = d.log
    /\ tdOffset' = offset
    /\ tdLength' = length
    /\ tdPc' = "read"
    /\ UNCHANGED <<tdAPROM, tdLDROM>>

TdRead(data, src, offset, length) ==
    TdReadFrom(data, src, offset, length) /\ UNCHANGED tdText

\* ReadTargetData's read of the full image.
TdReadImage(src) ==
    /\ tdPc = "new"
    /\ TdRead(tdData, src, 0, ProgMemSize)

\* ReadTargetData's read of the full image from a file given as text.
TdReadText(f) ==
    /\ tdPc = "new"
    /\ TdReadFrom(tdData, sourceOf(FileText(f)), 0, ProgMemSize)
    /\ tdText' = f

\* The stored bytes without those of lo..hi-1, which are 0xFF again.
fillFF(data, lo, hi) == [i \in DOMAIN data \ (lo..(hi - 1)) |-> data[i]]

\* ReadTargetData's read of the program-region file.
TdReadAPROM(src) ==
    /\ tdPc = "new"
    /\ Decode(tdConfig).err = "nil"
    /\ LET apromSz == apromSize(GetLDROMSize(Decode(tdConfig).cfg).size)
       IN  TdRead(fillFF(tdData, 0, apromSz), src, 0, apromSz)

\* ReadTargetData's read of the loader-region file.
TdReadLDROM(src) ==
    /\ tdPc = "new"
    /\ Decode(tdConfig).err = "nil"
    /\ GetLDROMSize(Decode(tdConfig).cfg).size # 0
    /\ LET ldromSz == GetLDROMSize(Decode(tdConfig).cfg).size
           apromSz == apromSize(ldromSz)
       IN  TdRead(fillFF(tdData, apromSz, ProgMemSize), src, apromSz, ldromSz)

\* What ReadTargetData requires of the configuration bytes before it
\* returns the image.
configAccepted(config) == Len(config) # 0 /\ Decode(config).err = "nil"

TdAPROM ==
    /\ tdPc = "read" /\ tdErr = "nil" /\ configAccepted(tdConfig)
    /\ tdAPROM' = APROM(tdConfig)
    /\ UNCHANGED <<tdPc, tdData, tdConfig, tdErr, tdOffset, tdLength, tdLog, tdLDROM, tdText>>

TdLDROM ==
    /\ tdPc = "read" /\ tdErr = "nil" /\ configAccepted(tdConfig)
    /\ tdLDROM' = LDROM(tdConfig)
    /\ UNCHANGED <<tdPc, tdData, tdConfig, tdErr, tdOffset, tdLength, tdLog, tdAPROM, tdText>>

-----------------------------------------------------------------------------
(* cmd: connectToTarget, resetAndCloseDevice and the program and read      *)
(* commands, one step per device command.                                  *)

\* Bounds of the flow model.
MaxProgrammers == 2    \* programmers Connect can open

FirmwareVersionRequired == 6069
DeviceN76E003 == 14300752
ResetAuto == 0
ResetNoneNuLink == 5
ConnectDisconnect == 4
ConnectICPMode == 5
ResetExtMode == 0
ResetMode1 == 1
ProgramSpace == 0
ConfigSpace == 3
LDROMOffset == 14336
ReadSize == 8
WriteSize == 32

\* An entry of the history: a command with its arguments, whether it
\* succeeded and the value it returned; or a handle opened or closed.
Cmd(cmd, a, ok, val) == [cmd |-> cmd, a |-> a, ok |-> ok, val |-> val]
Opened(h) == Cmd("open", <<h>>, TRUE, 0)
Closed(h) == Cmd("close", <<h>>, TRUE, 0)
ResetCmd(type, conn, mode, ok) == Cmd("Reset", <<type, conn, mode>>, ok, 0)

\* A step of a command that is no device command: decoding the
\* configuration, opening and writing the output.
Step(name, ok) == Cmd(name, <<>>, ok, 0)

\* What openWrite and d.Write can come back with.
OutputOutcomes == {"ok", "open", "write"}

\* What a device command can come back with: success, or an error of the
\* transport or of the response check.
Outcomes == {"ok", "err"}
FirmwareVersions == {6068, 6069, 6070}
DeviceIDs == {DeviceN76E003, 0}
TargetNames == {"", "stm8", "n76e003"}

\* target.ByName(targetName) != nil.
targetKnown(name) == name = "n76e003"

\* ver.FirmwareVersion < protocol.FirmwareVersionRequired.
firmwareTooOld_never(ver) == FALSE

firmwareTooOld(ver) == ver < FirmwareVersionRequired

\* The configuration bytes the flows meet: 0KB and 2KB loader size, and
\* bytes too short to decode (read back from the device only).
FlowConfigs == { <<255, 255, 255, 255, 255, 255, 255, 255>>,
                 <<255, 253, 255, 255, 255, 255, 255, 255>> }
ShortConfig == <<255, 253, 255>>

FlowInit ==
    /\ flPc = "start"
    /\ flKind \in {"program", "read", "merge"}
    /\ flTarget \in TargetNames
    /\ flHandles = {}
    /\ flLog = <<>>
    /\ flErr = "nil"
    /\ flConfig = <<>>
    /\ flAprom = 0
    /\ flLdrom = 0
    /\ flI = 0

FlowIdle ==
    /\ flPc = "off"
    /\ flKind = "program"
    /\ flTarget = ""
    /\ flHandles = {}
    /\ flLog = <<>>
    /\ flErr = "nil"
    /\ flConfig = <<>>
    /\ flAprom = 0
    /\ flLdrom = 0
    /\ flI = 0

\* A *Device that is nil.
NilDevice == 0

\* d.Close() while the handles in open are open: [log, open], the entry it
\* adds to the history and the handles open after it.  The guard is
\* d != nil && d.dev != nil.
Close_unguarded(open, d) == [log |-> <<Closed(d)>>, open |-> open \ {d}]

Close(open, d) ==
    IF d # NilDevice /\ d \in open
    THEN [log |-> <<Closed(d)>>, open |-> open \ {d}]
    ELSE [log |-> <<>>, open |-> open]

\* connectToTarget returns an error: the deferred dev.Close() runs.
connectFails(entries, e) ==
    /\ flLog' = flLog \o entries \o Close(flHandles, 1).log
    /\ flHandles' = Close(flHandles, 1).open
    /\ flErr' = e
    /\ flPc' = "exit"
    /\ UNCHANGED <<flKind, flTarget, flConfig, flAprom, flLdrom, flI>>

\* A step of connectToTarget succeeded.
connectGoes(entries, pc) ==
    /\ flLog' = flLog \o entries
    /\ flPc' = pc
    /\ UNCHANGED <<flKind, flTarget, flHandles, flErr, flConfig, flAprom, flLdrom, flI>>

\* connectToTarget returns the device: dev is nil when the deferred
\* dev.Close() runs.
connectReturns(entries) ==
    /\ flLog' = flLog \o entries \o Close(flHandles, NilDevice).log
    /\ flHandles' = Close(flHandles, NilDevice).open
    /\ flPc' = "ready"
    /\ UNCHANGED <<flKind, flTarget, flErr, flConfig, flAprom, flLdrom, flI>>

\* The switch on len(devs) in connectToTarget.
selectionError_firstOfMany(n) == IF n = 0 THEN "No programmer found" ELSE "nil"

selectionError(n) ==
    IF n = 0 THEN "No programmer found"
    ELSE IF n > 1 THEN "Multiple programmers found"
    ELSE "nil"

\* protocol.Connect and the switch on len(devs): n handles were opened,
\* failed says a further Open returned an error.
FlConnect(n, failed) ==
    /\ flPc = "start" /\ flKind # "merge"
    /\ LET opens == [h \in 1..n |-> Opened(h)]
           closes == [h \in 1..n |-> Closed(h)]
       IN  IF failed \/ selectionError(n) # "nil"
           THEN /\ flLog' = (IF failed \/ n > 1 THEN opens \o closes ELSE opens)
                /\ flHandles' = {}
                /\ flErr' = IF failed THEN "open" ELSE selectionError(n)
                /\ flPc' = "exit"
           ELSE /\ flLog' = opens
                /\ flHandles' = {1}
                /\ flErr' = "nil"
                /\ flPc' = "opened"
    /\ UNCHANGED <<flKind, flTarget, flConfig, flAprom, flLdrom, flI>>

\* dev.GetVersion() and the checks of the version and of the target name.
FlGetVersion(out, ver) ==
    /\ flPc = "opened"
    /\ LET e == Cmd("GetVersion", <<>>, out = "ok", IF out = "ok" THEN ver ELSE 0)
       IN  IF out # "ok" THEN connectFails(<<e>>, "err")
           ELSE IF firmwareTooOld(ver) THEN connectFails(<<e>>, "firmware out of date")
           ELSE IF flTarget = "" THEN connectFails(<<e>>, "Target device not specified")
           ELSE IF ~targetKnown(flTarget) THEN connectFails(<<e>>, "Target device not found")
           ELSE connectGoes(<<e>>, "versioned")

FlSetConfig(out) ==
    /\ flPc = "versioned"
    /\ LET e == Cmd("SetConfig", <<>>, out = "ok", 0)
       IN  IF out # "ok" THEN connectFails(<<e>>, "err")
           ELSE connectGoes(<<e>>, "configured")

FlResetICP(out) ==
    /\ flPc = "configured"
    /\ LET e == ResetCmd(ResetAuto, ConnectICPMode, ResetExtMode, out = "ok")
       IN  IF out # "ok" THEN connectFails(<<e>>, "err")
           ELSE connectGoes(<<e>>, "reset1")

FlResetNone(out) ==
    /\ flPc = "reset1"
    /\ LET e == ResetCmd(ResetNoneNuLink, ConnectICPMode, ResetExtMode, out = "ok")
       IN  IF out # "ok" THEN connectFails(<<e>>, "err")
           ELSE connectGoes(<<e>>, "reset2")

\* devID != targetDev.DeviceID.
wrongDevice_never(id) == FALSE

wrongDevice(id) == id # DeviceN76E003

FlCheckID(out, id) ==
    /\ flPc = "reset2"
    /\ LET e == Cmd("CheckID", <<>>, out = "ok", IF out = "ok" THEN id ELSE 0)
       IN  IF out # "ok" THEN connectFails(<<e>>, "err")
           ELSE IF wrongDevice(id) THEN connectFails(<<e>>, "Unsupported device")
           ELSE connectReturns(<<e>>)

\* The command returns e after connectToTarget succeeded: the deferred
\* resetAndCloseDevice(dev) is what is left to run.
flowReturns(entries, e) ==
    /\ flLog' = flLog \o entries
    /\ flErr' = e
    /\ flPc' = "teardown"
    /\ UNCHANGED <<flKind, flTarget, flHandles, flConfig, flAprom, flLdrom, flI>>

\* The command goes on after a device command that succeeded, in the loop
\* over a region or past it.
flowGoes(entries, pc, i) ==
    /\ flLog' = flLog \o entries
    /\ flPc' = pc
    /\ flI' = i
    /\ UNCHANGED <<flKind, flTarget, flHandles, flErr, flConfig, flAprom, flLdrom>>

\* The lengths of data.APROM() and data.LDROM().
regionLength(sl) == IF sl.isNil THEN 0 ELSE sl.hi - sl.lo

\* programCmd: ReadTargetData, which fails or returns an image with the
\* configuration bytes config.
FlCompose(out, config) ==
    /\ flPc = "ready" /\ flKind = "program"
    /\ IF out # "ok" THEN flowReturns(<<>>, "compose")
       ELSE /\ flConfig' = config
            /\ flPc' = "composed"
            /\ UNCHANGED <<flKind, flTarget, flHandles, flLog, flErr, flAprom, flLdrom, flI>>

\* programCmd: dev.EraseFlashChip().
FlErase(out) ==
    /\ flPc = "composed"
    /\ LET e == Cmd("EraseFlashChip", <<>>, out = "ok", 0)
       IN  IF out # "ok" THEN flowReturns(<<e>>, "err")
           ELSE flowGoes(<<e>>, "erased", 0)

\* programCmd: the padding and the write of the configuration bytes, then
\* data.APROM() and data.LDROM().
FlWriteConfig(out) ==
    /\ flPc = "erased"
    /\ LET padded == IF Len(flConfig) # 0 /\ Len(flConfig) < WriteSize
                     THEN flConfig \o Fill(WriteSize - Len(flConfig), 255)
                     ELSE flConfig
           e == IF Len(flConfig) # 0
                THEN <<Cmd("WriteMemory", <<ConfigSpace, 0, WriteSize>>, out = "ok", 0)>>
                ELSE <<>>
       IN  IF Len(flConfig) # 0 /\ out # "ok" THEN flowReturns(e, "err")
           ELSE IF APROM(padded).err # "nil" \/ LDROM(padded).err # "nil"
           THEN flowReturns(e, "config")
           ELSE /\ flLog' = flLog \o e
                /\ flConfig' = padded
                /\ flAprom' = regionLength(APROM(padded))
                /\ flLdrom' = regionLength(LDROM(padded))
                /\ flI' = 0
                /\ flPc' = "aprom"
                /\ UNCHANGED <<flKind, flTarget, flHandles, flErr>>

\* programCmd: one round of the loop over apromB.
FlWriteAPROM(out) ==
    /\ flPc = "aprom" /\ flKind = "program"
    /\ LET e == Cmd("WriteMemory", <<ProgramSpace, U16(flI), 32>>, out = "ok", 0)
       IN  IF out # "ok" THEN flowReturns(<<e>>, "err")
           ELSE IF flI + 32 < flAprom THEN flowGoes(<<e>>, "aprom", flI + 32)
           ELSE IF 0 < flLdrom THEN flowGoes(<<e>>, "ldrom", 0)
           ELSE flowReturns(<<e>>, "nil")

\* offs := uint16(td.LDROMOffset) + uint16(i)
loaderAddress_fromZero(i) == U16(i)

loaderAddress(i) == U16(U16(LDROMOffset) + U16(i))

\* programCmd: one round of the loop over ldromB.
FlWriteLDROM(out) ==
    /\ flPc = "ldrom" /\ flKind = "program"
    /\ LET offs == loaderAddress(flI)
           e == Cmd("WriteMemory", <<ProgramSpace, offs, 32>>, out = "ok", 0)
       IN  IF out # "ok" THEN flowReturns(<<e>>, "err")
           ELSE IF flI + 32 < flLdrom THEN flowGoes(<<e>>, "ldrom", flI + 32)
           ELSE flowReturns(<<e>>, "nil")

\* readCmd: the read of the configuration bytes, then d.APROM() and
\* d.LDROM().
FlReadConfig(out, bytes) ==
    /\ flPc = "ready" /\ flKind = "read"
    /\ LET e == Cmd("ReadMemory", <<ConfigSpace, 0, ReadSize>>, out = "ok", 0)
       IN  IF out # "ok" THEN flowReturns(<<e>>, "err")
           ELSE IF APROM(bytes).err # "nil" \/ LDROM(bytes).err # "nil"
           THEN /\ flLog' = flLog \o <<e, Step(IF APROM(bytes).err # "nil"
                                                THEN "APROM" ELSE "LDROM", FALSE)>>
                /\ flConfig' = bytes
                /\ flErr' = "nil"
                /\ flPc' = "teardown"
                /\ UNCHANGED <<flKind, flTarget, flHandles, flAprom, flLdrom, flI>>
           ELSE /\ flLog' = flLog \o <<e>>
                /\ flConfig' = bytes
                /\ flAprom' = regionLength(APROM(bytes))
                /\ flLdrom' = regionLength(LDROM(bytes))
                /\ flI' = 0
                /\ flPc' = "aprom"
                /\ UNCHANGED <<flKind, flTarget, flHandles, flErr>>

\* readCmd: one round of the loop over aprom.
FlReadAPROM(out) ==
    /\ flPc = "aprom" /\ flKind = "read"
    /\ LET e == Cmd("ReadMemory", <<ProgramSpace, U16(flI), 32>>, out = "ok", 0)
       IN  IF out # "ok" THEN flowReturns(<<e>>, "err")
           ELSE IF flI + 32 < flAprom THEN flowGoes(<<e>>, "aprom", flI + 32)
           ELSE IF 0 < flLdrom THEN flowGoes(<<e>>, "ldrom", 0)
           ELSE flowGoes(<<e>>, "output", flI + 32)

\* readCmd: one round of the loop over ldrom.
FlReadLDROM(out) ==
    /\ flPc = "ldrom" /\ flKind = "read"
    /\ LET e == Cmd("ReadMemory", <<ProgramSpace, U16(flI + LDROMOffset), 32>>, out = "ok", 0)
       IN  IF out # "ok" THEN flowReturns(<<e>>, "err")
           ELSE IF flI + 32 < flLdrom THEN flowGoes(<<e>>, "ldrom", flI + 32)
           ELSE flowGoes(<<e>>, "output", flI + 32)

\* readCmd and imageMergeCmd: openWrite and d.Write(w), whose error is
\* dropped; imageMergeCmd has no device to reset and close.
FlOutput(out) ==
    /\ flPc = "output"
    /\ flLog' = flLog \o
          (IF out = "open" THEN <<Step("openWrite", FALSE)>>
           ELSE <<Step("openWrite", TRUE), Step("Write", out = "ok")>>)
    /\ flErr' = IF out = "open" THEN "err" ELSE "nil"
    /\ flPc' = IF flKind = "merge" THEN "exit" ELSE "teardown"
    /\ UNCHANGED <<flKind, flTarget, flHandles, flConfig, flAprom, flLdrom, flI>>

\* imageMergeCmd up to openWrite: the target name, then ReadTargetData.
FlMerge(out, config) ==
    /\ flPc = "start" /\ flKind = "merge"
    /\ flErr' = IF flTarget = "" THEN "Target device not specified"
                ELSE IF ~targetKnown(flTarget) THEN "Target device not found"
                ELSE IF out # "ok" THEN "compose"
                ELSE "nil"
    /\ flPc' = IF flErr' = "nil" THEN "output" ELSE "exit"
    /\ flConfig' = IF flErr' = "nil" THEN config ELSE flConfig
    /\ flLog' = flLog \o <<Step("ReadTargetData", flErr' = "nil")>>
    /\ UNCHANGED <<flKind, flTarget, flHandles, flAprom, flLdrom, flI>>

\* What resetAndCloseDevice(dev) does, o1, o2, o3 being how the resets come
\* back.
teardownCommands_untilError(o1, o2, o3) ==
    <<ResetCmd(ResetAuto, ConnectICPMode, ResetExtMode, o1 = "ok")>> \o
    (IF o1 # "ok" THEN <<>>
     ELSE <<ResetCmd(ResetAuto, ConnectDisconnect, ResetMode1, o2 = "ok")>> \o
          (IF o2 # "ok" THEN <<>>
           ELSE <<ResetCmd(ResetNoneNuLink, ConnectDisconnect, ResetExtMode, o3 = "ok")>>)) \o
    Close(flHandles, 1).log

teardownCommands(o1, o2, o3) ==
    <<ResetCmd(ResetAuto, ConnectICPMode, ResetExtMode, o1 = "ok"),
      ResetCmd(ResetAuto, ConnectDisconnect, ResetMode1, o2 = "ok"),
      ResetCmd(ResetNoneNuLink, ConnectDisconnect, ResetExtMode, o3 = "ok")>> \o
    Close(flHandles, 1).log

\* resetAndCloseDevice(dev): three resets whose errors are dropped, then
\* dev.Close().
FlTeardown(o1, o2, o3) ==
    /\ flPc = "teardown"
    /\ flLog' = flLog \o teardownCommands(o1, o2, o3)
    /\ flHandles' = Close(flHandles, 1).open
    /\ flPc' = "exit"
    /\ UNCHANGED <<flKind, flTarget, flErr, flConfig, flAprom, flLdrom, flI>>

-----------------------------------------------------------------------------
(* protocol: marshalCommand, unmarshal, checkResp and the command          *)
(* operations GetVersion, SetConfig, Reset, CheckID, ReadMemory,           *)
(* EraseFlashChip, WriteMemory.                                            *)

\* Little-endian encodings of a uint16 and of a uint32 below 2^16.
LE16(n) == <<n % 256, (n \div 256) % 256>>
LE32(n) == LE16(n) \o <<0, 0>>

\* The uint32 in the first four bytes of buf.
U32LE(buf) == Word32(buf[3] + 256 * buf[4], buf[1] + 256 * buf[2])

\* unmarshal(buf, &dst) for a dst of n bytes: the error of binary.Read.
unmarshalErr(buf, n) ==
    IF Len(buf) >= n THEN "nil"
    ELSE IF Len(buf) = 0 THEN "EOF" ELSE "ErrUnexpectedEOF"

\* marshalCommand(cmd, body) with body already laid out in bytes.
marshalCommand(cmd, body) == LE32(cmd) \o body

\* checkResp(cmd, buf).
checkResp(cmd, buf) ==
    IF unmarshalErr(buf, 4) # "nil" THEN unmarshalErr(buf, 4)
    ELSE IF U32LE(buf) # Word32(0, cmd) THEN "mismatch"
    ELSE "nil"

\* memCmd{Addr, Space, Length} in bytes.
memCmd(address, space, length) == LE16(address) \o LE16(space) \o LE32(length)

ZeroVersionInfo ==
    [FirmwareVersion |-> Word32(0, 0), ProductID |-> Word32(0, 0),
     Flags |-> Word32(0, 0), TargetVoltage |-> 0, USBVoltage |-> 0]

\* What an operation returns: the error and, by operation, the bytes, the
\* device id or the version information.
Result(e) == [err |-> e, bytes |-> <<>>, id |-> Word32(0, 0), info |-> ZeroVersionInfo]

\* The operations as they are called: name, command code and arguments.
Op(name, code, space, address, length) ==
    [name |-> name, code |-> code, space |-> space, address |-> address, length |-> length]

\* The body each operation hands to d.Request.
requestOf(op) ==
    CASE op.name = "GetVersion" -> Fill(MaxBodyLength, 255)
      [] op.name = "SetConfig" ->
            marshalCommand(op.code, LE32(1000) \o LE32(2048) \o LE32(3300) \o LE32(0) \o LE32(0))
      [] op.name = "Reset" ->
            marshalCommand(op.code, LE32(ResetAuto) \o LE32(ConnectICPMode) \o LE32(ResetExtMode))
      [] op.name = "CheckID" -> marshalCommand(op.code, LE32(0))
      [] op.name = "ReadMemory" ->
            marshalCommand(op.code, memCmd(op.address, op.space, op.length))
      [] op.name = "EraseFlashChip" -> marshalCommand(op.code, <<>>)
      [] op.name = "WriteMemory" ->
            marshalCommand(op.code, memCmd(op.address, op.space, op.length))
                \o Fill(op.length, 165)

\* Which operations pass the response through checkResp.
checksResponse(op) == op.name \notin {"GetVersion", "ReadMemory"}

\* What the operation makes of the body resp that d.Request returned.
resultOf(op, resp) ==
    IF checksResponse(op) /\ checkResp(op.code, resp) # "nil"
    THEN Result(checkResp(op.code, resp))
    ELSE CASE op.name = "GetVersion" ->
                 IF unmarshalErr(resp, 16) # "nil" THEN Result(unmarshalErr(resp, 16))
                 ELSE [Result("nil") EXCEPT
                          !.info = [FirmwareVersion |-> U32LE(resp),
                                    ProductID |-> U32LE(SubSeq(resp, 5, 8)),
                                    Flags |-> U32LE(SubSeq(resp, 9, 12)),
                                    TargetVoltage |-> resp[13] + 256 * resp[14],
                                    USBVoltage |-> resp[15] + 256 * resp[16]]]
           [] op.name = "CheckID" ->
                 LET rest == SubSeq(resp, 5, Len(resp))
                 IN  IF unmarshalErr(rest, 4) # "nil" THEN Result(unmarshalErr(rest, 4))
                     ELSE [Result("nil") EXCEPT !.id = U32LE(rest)]
           [] op.name = "ReadMemory" -> [Result("nil") EXCEPT !.bytes = resp]
           [] OTHER -> Result("nil")

\* The operations the commands of the program call.
Operations ==
    { Op("GetVersion", 255, 0, 0, 0), Op("SetConfig", 162, 0, 0, 0),
      Op("Reset", 226, 0, 0, 0), Op("CheckID", 163, 0, 0, 0),
      Op("ReadMemory", 161, ConfigSpace, 0, ReadSize),
      Op("ReadMemory", 161, ProgramSpace, 32, 32),
      Op("EraseFlashChip", 164, 0, 0, 0),
      Op("WriteMemory", 160, ConfigSpace, 0, WriteSize),
      Op("WriteMemory", 160, ProgramSpace, 14336, 32) }

\* The bodies a device can answer with: every command code, a firmware
\* version and two other words in front, tails of several lengths, and
\* bodies shorter than a command code.
ResponseHeads ==
    { LE32(c) : c \in {160, 161, 162, 163, 164, 226, 6069} } \cup
    { <<255, 255, 255, 255>>, <<161, 0, 0, 1>> }
ResponseTails == { Fill(n, 90) : n \in {0, 4, 8, 12, 32, 58} }
Responses ==
    { h \o t : h \in ResponseHeads, t \in ResponseTails } \cup
    { <<>>, <<161>>, <<161, 0, 0>> }

CmdInit ==
    /\ cmPc = "idle"
    /\ cmOp = Op("", 0, 0, 0, 0)
    /\ cmReq = <<>>
    /\ cmResp = [err |-> "nil", body |-> <<>>]
    /\ cmRes = Result("nil")

CmdIdle ==
    /\ cmPc = "off"
    /\ cmOp = Op("", 0, 0, 0, 0)
    /\ cmReq = <<>>
    /\ cmResp = [err |-> "nil", body |-> <<>>]
    /\ cmRes = Result("nil")

\* One call of an operation; out and body are what d.Request returns.
CmdCall(op, out, body) ==
    /\ cmPc = "idle"
    /\ cmOp' = op
    /\ cmReq' = requestOf(op)
    /\ cmResp' = [err |-> IF out = "ok" THEN "nil" ELSE "err",
                  body |-> IF out = "ok" THEN body ELSE <<>>]
    /\ cmRes' = IF out = "ok" THEN resultOf(op, body) ELSE Result("err")
    /\ cmPc' = "done"

-----------------------------------------------------------------------------
(* protocol/frame.go: calls of V1Framer.Frame and V1Framer.Unframe.        *)

\* The sequence numbers, bodies and raw packets the calls are made with:
\* bodies around the limit of 62 bytes, of zero and of non-zero bytes; raw
\* packets around the length of 64 bytes with a length byte around 62.
FrameSeqs == {0, 1, 127, 255}
FrameBodyLengths == {0, 1, 2, 61, 62, 63, 64, 70}
FrameBodies == { Fill(n, v) : n \in FrameBodyLengths, v \in {0, 165, 255} }
RawLengths == {0, 1, 2, 63, 64, 65}
RawBodyLengths == {0, 1, 61, 62, 63, 255}
RawPackets ==
    { IF n < 2 THEN Fill(n, 7) ELSE <<s, l>> \o [i \in 1..(n - 2) |-> (i * 37) % 256] :
        n \in RawLengths, s \in {0, 200}, l \in RawBodyLengths }

NoFrame == [err |-> "nil", frame |-> <<>>]

FrameInit ==
    /\ frPc = "idle"
    /\ frSeq = 0
    /\ frBody = <<>>
    /\ frOut = NoFrame
    /\ frRaw = <<>>
    /\ frUn = NoFrame

FrameIdle ==
    /\ frPc = "off"
    /\ frSeq = 0
    /\ frBody = <<>>
    /\ frOut = NoFrame
    /\ frRaw = <<>>
    /\ frUn = NoFrame

\* f, err := framer.Frame(seqno, body)
FrFrame(seqno, body) ==
    /\ frPc = "idle"
    /\ frSeq' = seqno
    /\ frBody' = body
    /\ frOut' = Frame(seqno, body)
    /\ frPc' = "framed"
    /\ UNCHANGED <<frRaw, frUn>>

\* framer.Unframe(f.Bytes()) for the frame that Frame returned.
FrUnframeFrame ==
    /\ frPc = "framed" /\ frOut.err = "nil"
    /\ frRaw' = frOut.frame
    /\ frUn' = Unframe(frOut.frame)
    /\ frPc' = "unframed"
    /\ UNCHANGED <<frSeq, frBody, frOut>>

\* framer.Unframe(pkg) for a packet as it was read.
FrUnframe(pkg) ==
    /\ frPc = "idle"
    /\ frRaw' = pkg
    /\ frUn' = Unframe(pkg)
    /\ frPc' = "raw"
    /\ UNCHANGED <<frSeq, frBody, frOut>>

-----------------------------------------------------------------------------
(* ihex: NewReader and successive calls of Reader.Next.                    *)

\* Bound of the reader model.
MaxReaderRecords == 4  \* records in the input of one Reader

\* The records of an input: data at a low and at the highest record
\* address, both kinds of extension record, both kinds of start-address
\* record, an extension record of a wrong length, and the end-of-file
\* record.
ReaderPackets ==
    { DataPacket(16, <<1, 2>>),
      DataPacket(65535, <<9>>),
      ExtendedLinearAddressPacket(3),
      [Type |-> 2, Address |-> 0, Data |-> <<18, 52>>],
      [Type |-> 3, Address |-> 0, Data |-> <<0, 0, 0, 16>>],
      [Type |-> 5, Address |-> 0, Data |-> <<0, 0, 0, 16>>],
      [Type |-> 4, Address |-> 0, Data |-> <<3>>],
      [Type |-> 2, Address |-> 0, Data |-> <<18, 52, 0>>],
      EOFPacket }
ReaderSources ==
    { Source(pkts, end) : pkts \in SeqsUpTo(ReaderPackets, MaxReaderRecords),
                          end \in SourceEnds }

\* NewReader(r)
ReaderInit ==
    /\ rdPc = "run"
    /\ rdAll \in ReaderSources
    /\ rdSrc = rdAll
    /\ rdR = [seg |-> Word32(0, 0), eof |-> FALSE]
    /\ rdTrace = <<>>

ReaderIdle ==
    /\ rdPc = "off"
    /\ rdAll = Source(<<>>, "EOF")
    /\ rdSrc = rdAll
    /\ rdR = [seg |-> Word32(0, 0), eof |-> FALSE]
    /\ rdTrace = <<>>

\* b, err := r.Next(); used counts the records read from the input so far.
RdNext ==
    /\ rdPc = "run"
    /\ Len(rdTrace) < Len(rdAll.pkts) + 2
    /\ LET res == ReaderNext(rdR, rdSrc)
       IN  /\ rdR' = res.r
           /\ rdSrc' = res.src
           /\ rdTrace' = Append(rdTrace,
                            [err |-> res.err, block |-> res.block,
                             used |-> Len(rdAll.pkts) - Len(res.src.pkts)])
    /\ UNCHANGED <<rdPc, rdAll>>

-----------------------------------------------------------------------------
(* cmd/target_data.go: readConfig and ReadTargetData.                      *)

MinSize == 4

\* strings.TrimSpace on a text of character codes.
isSpace(c) == c \in {9, 10, 11, 12, 13, 32}
TrimSpace(t) ==
    LET keep == { i \in 1..Len(t) : ~isSpace(t[i]) }
    IN  IF keep = {} THEN <<>>
        ELSE SubSeq(t, CHOOSE i \in keep : \A j \in keep : i <= j,
                       CHOOSE i \in keep : \A j \in keep : j <= i)

\* hex.DecodeString: [err, bytes].
DecodeString(t) ==
    LET pairs == Len(t) \div 2
        bad == { k \in 1..pairs : nibble(t[2 * k - 1]) = -1 \/ nibble(t[2 * k]) = -1 }
    IN  IF bad # {} THEN [err |-> "InvalidByteError", bytes |-> <<>>]
        ELSE IF Len(t) % 2 = 1
        THEN [err |-> IF nibble(t[Len(t)]) = -1 THEN "InvalidByteError" ELSE "ErrLength",
              bytes |-> <<>>]
        ELSE [err |-> "nil",
              bytes |-> [k \in 1..pairs |-> nibble(t[2 * k - 1]) * 16 + nibble(t[2 * k])]]

\* A file as openRead finds it, and the events of opening and reading one.
File(open, src) == [open |-> open, src |-> src]
Missing == File("err", Source(<<>>, "EOF"))
IO(op, name, ok) == [op |-> op, name |-> name, ok |-> ok]

\* readConfig(td, arg): [err, bytes, io].  parsed is what json.Unmarshal
\* makes of the text: [err, cfg]; file is the file an @ argument names.
readConfig(arg, file, parsed) ==
    LET t == TrimSpace(arg)
        fromJSON(io) ==
            IF parsed.err # "nil"
            THEN [err |-> "Parsing configuration", bytes |-> <<>>, io |-> io]
            ELSE [err |-> MarshalBinary(parsed.cfg).err,
                  bytes |-> MarshalBinary(parsed.cfg).buf, io |-> io]
    IN  IF t = <<>>
        THEN [err |-> "No configuration specified", bytes |-> <<>>, io |-> <<>>]
        ELSE IF t[1] = 123 THEN fromJSON(<<>>)
        ELSE IF nibble(t[1]) # -1
        THEN LET cfg == DecodeString(t)
             IN  IF cfg.err # "nil" THEN [err |-> cfg.err, bytes |-> <<>>, io |-> <<>>]
                 ELSE IF Len(cfg.bytes) < MinSize
                 THEN [err |-> "Specified configuration too short", bytes |-> <<>>, io |-> <<>>]
                 ELSE IF Len(cfg.bytes) > WriteSize
                 THEN [err |-> "Specified configuration too long", bytes |-> <<>>, io |-> <<>>]
                 ELSE [err |-> "nil", bytes |-> cfg.bytes, io |-> <<>>]
        ELSE IF t[1] = 64
        THEN IF file.open = "err"
             THEN [err |-> "open", bytes |-> <<>>, io |-> <<IO("open", "config", FALSE)>>]
             ELSE IF file.open = "unreadable"
             THEN [err |-> "read", bytes |-> <<>>,
                   io |-> <<IO("open", "config", TRUE), IO("read", "config", FALSE)>>]
             ELSE fromJSON(<<IO("open", "config", TRUE), IO("read", "config", TRUE)>>)
        ELSE [err |-> "not understood for config parameter", bytes |-> <<>>, io |-> <<>>]

\* The check of the arguments at the head of ReadTargetData.
usageError_none(image, aprom, ldrom, needImage) == "nil"

usageError(image, aprom, ldrom, needImage) ==
    IF image = "" /\ aprom = "" /\ ldrom = "" /\ needImage
    THEN "No input files specified"
    ELSE IF image = "" /\ aprom = "" /\ ldrom = ""
    THEN "Can only specify maximum of two of Image, APROM and LDROM"
    ELSE "nil"

\* openRead(name) and d.read(rd, offset, length, true, kind) on the state
\* st = [err, Data, Config, io, split] of the call, after the bytes of
\* lo..hi-1 were set to 0xFF.
readFile(st, name, file, lo, hi, offset, length) ==
    IF file.open # "ok"
    THEN [st EXCEPT !.err = "open", !.io = Append(@, IO("open", name, FALSE))]
    ELSE With(read([Data |-> fillFF(st.Data, lo, hi), Config |-> st.Config,
                    err |-> "nil", log |-> <<>>],
                   file.src, offset, length, TRUE),
              LAMBDA d :
                [st EXCEPT !.err = d.err, !.Data = d.Data, !.Config = d.Config,
                           !.io = @ \o <<IO("open", name, TRUE),
                                         IO("read", name, d.err = "nil")>>])

\* ReadTargetData up to the read of the image, on st = [err, Data, Config,
\* io, split].
readImage(st, a, files) ==
    IF a.image = "" THEN st
    ELSE readFile(st, a.image, files.image, 0, 0, 0, ProgMemSize)

\* ReadTargetData: the config parameter.
readConfigParameter(st, a, files, parsed) ==
    IF st.err # "nil" \/ a.config = <<>> THEN st
    ELSE With(readConfig(a.config, files.config, parsed),
              LAMBDA rc : [st EXCEPT !.err = rc.err, !.Config = rc.bytes, !.io = @ \o rc.io])

\* ReadTargetData: the configuration is decoded and gives the split.
decodeSplit(st, a) ==
    IF st.err # "nil" THEN st
    ELSE IF Len(st.Config) = 0 THEN [st EXCEPT !.err = "No configuration bytes specified"]
    ELSE IF Decode(st.Config).err # "nil" THEN [st EXCEPT !.err = Decode(st.Config).err]
    ELSE IF GetLDROMSize(Decode(st.Config).cfg).size = 0 /\ a.ldrom # ""
    THEN [st EXCEPT !.err = "configuration does not support LDROM"]
    ELSE [st EXCEPT !.split = apromSize(GetLDROMSize(Decode(st.Config).cfg).size),
                    !.decoded = st.Config]

\* ReadTargetData: the reads of the aprom and of the ldrom file; st.split
\* is apromSz.
readAPROM(st, a, files) ==
    IF st.err # "nil" \/ a.aprom = "" THEN st
    ELSE readFile(st, a.aprom, files.aprom, 0, st.split, 0, st.split)

readLDROM(st, a, files) ==
    IF st.err # "nil" \/ a.ldrom = "" THEN st
    ELSE readFile(st, a.ldrom, files.ldrom, st.split, ProgMemSize,
                  st.split, ProgMemSize - st.split)

\* ReadTargetData(config, image, aprom, ldrom, td, needImage):
\* [err, Data, Config, io, split, decoded]; decoded is the history of the
\* bytes cfgo.UnmarshalBinary(d.Config) was given.
ReadTargetData(a, files, parsed) ==
    LET d0 == [err |-> "nil", Data |-> <<>>, Config |-> <<>>, io |-> <<>>, split |-> -1,
               decoded |-> <<>>]
    IN  IF usageError(a.image, a.aprom, a.ldrom, a.needImage) # "nil"
        THEN [d0 EXCEPT !.err = usageError(a.image, a.aprom, a.ldrom, a.needImage)]
        ELSE With(readImage(d0, a, files), LAMBDA d1 :
             With(readConfigParameter(d1, a, files, parsed), LAMBDA d2 :
             With(decodeSplit(d2, a), LAMBDA d3 :
             With(readAPROM(d3, a, files), LAMBDA d4 : readLDROM(d4, a, files)))))

\* The arguments: no configuration, configurations in hexadecimal (a 2KB
\* loader, no loader, with a space in front, too short, of odd length, with
\* a wrong digit, too long), JSON text, a file, a word, a blank.
ConfigArgs ==
    { <<>>, <<70, 70, 70, 68, 70, 70, 70, 70>>, Fill(8, 102),
      <<32, 70, 70, 70, 68, 70, 70, 70, 70>>, <<70, 70, 70, 68>>, <<70, 70, 70>>,
      <<70, 71>>, Fill(66, 70), <<123>>, <<64>>, <<120>>, <<32>> }
Arguments ==
    [config : ConfigArgs, image : {"", "image.ihx"}, aprom : {"", "aprom.ihx"},
     ldrom : {"", "ldrom.ihx"}, needImage : BOOLEAN]

\* What a file can hold: nothing, data at 0, a configuration block and data,
\* data beyond the program memory, a record with a wrong checksum.
ComposeSources ==
    { Source(<<>>, "EOF"),
      Source(<<DataPacket(0, <<1, 2>>), EOFPacket>>, "EOF"),
      Source(<<ExtendedLinearAddressPacket(3), DataPacket(0, <<255, 252, 255, 255>>),
               ExtendedLinearAddressPacket(0), DataPacket(16, <<7>>)>>, "EOF"),
      Source(<<DataPacket(12284, SourceData)>>, "EOF"),
      Source(<<DataPacket(32, <<3>>)>>, "ErrInvalidChecksum") }
FilesFor(name) ==
    IF name = "" THEN {Missing} ELSE {Missing} \cup { File("ok", src) : src \in ComposeSources }
ConfigFilesFor(config) ==
    IF config = <<64>> THEN {Missing, File("unreadable", Source(<<>>, "EOF")),
                             File("ok", Source(<<>>, "EOF"))}
    ELSE {Missing}
ParsedFor(config) ==
    IF config \in {<<123>>, <<64>>}
    THEN {[err |-> "parse", cfg |-> ZeroConfig], [err |-> "nil", cfg |-> ZeroConfig],
          [err |-> "nil", cfg |-> [ZeroConfig EXCEPT !.LDROMSize = N76E003LDROM1KB]]}
    ELSE {[err |-> "parse", cfg |-> ZeroConfig]}

NoResult == [err |-> "nil", Data |-> <<>>, Config |-> <<>>, split |-> -1, decoded |-> <<>>]
NoFiles == [image |-> Missing, aprom |-> Missing, ldrom |-> Missing, config |-> Missing]
NoArguments ==
    [config |-> <<>>, image |-> "", aprom |-> "", ldrom |-> "", needImage |-> FALSE]

ComposeInit ==
    /\ rtPc = "idle"
    /\ rtArgs = NoArguments
    /\ rtFiles = NoFiles
    /\ rtIO = <<>>
    /\ rtRes = NoResult
    /\ rtAPROM = NotCalled
    /\ rtLDROM = NotCalled

ComposeIdle ==
    /\ rtPc = "off"
    /\ rtArgs = NoArguments
    /\ rtFiles = NoFiles
    /\ rtIO = <<>>
    /\ rtRes = NoResult
    /\ rtAPROM = NotCalled
    /\ rtLDROM = NotCalled

\* d, err := ReadTargetData(config, image, aprom, ldrom, td, needImage)
RtCall(a, files, parsed) ==
    /\ rtPc = "idle"
    /\ rtArgs' = a
    /\ rtFiles' = files
    /\ \E d \in {ReadTargetData(a, files, parsed)} :
           /\ rtIO' = d.io
           /\ rtRes' = [err |-> d.err, Data |-> d.Data, Config |-> d.Config,
                        split |-> d.split, decoded |-> d.decoded]
    /\ rtPc' = "done"
    /\ UNCHANGED <<rtAPROM, rtLDROM>>

\* The configuration bytes readCmd can get from the device: 8 bytes, and
\* the shorter answers ReadMemory lets through.
DeviceConfigs == FlowConfigs \cup {ShortConfig, <<>>, <<255, 252, 255, 255>>}

\* d := NewTargetData(td); d.Config = bytes, as readCmd does.
RtNew(bytes) ==
    /\ rtPc = "idle"
    /\ rtRes' = [NoResult EXCEPT !.Config = bytes]
    /\ rtPc' = "new"
    /\ UNCHANGED <<rtArgs, rtFiles, rtIO, rtAPROM, rtLDROM>>

\* d.APROM() and d.LDROM() on the image that was composed or made.
RtAPROM ==
    /\ rtPc \in {"done", "new"} /\ rtRes.err = "nil" /\ ~rtAPROM.called
    /\ rtAPROM' = APROM(rtRes.Config)
    /\ UNCHANGED <<rtPc, rtArgs, rtFiles, rtIO, rtRes, rtLDROM>>

RtLDROM ==
    /\ rtPc \in {"done", "new"} /\ rtRes.err = "nil" /\ ~rtLDROM.called
    /\ rtLDROM' = LDROM(rtRes.Config)
    /\ UNCHANGED <<rtPc, rtArgs, rtFiles, rtIO, rtRes, rtAPROM>>

-----------------------------------------------------------------------------
(* ihex.Writer.Close and cmd/target_data.go: TargetData.Write.             *)

\* Writer.Close() on st = [seg, out, abs, failed, err, left, closes]; close
\* is what the Close of the sink returns.  The record is not written.
WriterClose_noEOF(st, close) == [st EXCEPT !.closes = @ + 1, !.err = close]

WriterClose(st, close) ==
    With(emit(st, EOFPacket, NoAddress),
         LAMBDA s1 : IF s1.err # "nil" THEN [s1 EXCEPT !.closes = @ + 1]
                     ELSE [s1 EXCEPT !.closes = @ + 1, !.err = close])

\* d.Data as the bytes it stands for: 0xFF where nothing was stored.
Bytes(data) == [i \in 1..ProgMemSize |-> IF (i - 1) \in DOMAIN data THEN data[i - 1] ELSE 255]

\* TargetData.Write(ws): [err, out, abs, closes].
TargetDataWrite(d, sink) ==
    LET st0 == [seg |-> Word32(0, 0), out |-> <<>>, abs |-> <<>>, failed |-> FALSE,
                err |-> "nil", left |-> IF sink.failAt = 0 THEN -1 ELSE sink.failAt - 1,
                closes |-> 0]
    IN  With(IF Len(d.Config) > 0 THEN WriterWrite(st0, IHexOffset, d.Config) ELSE st0,
             LAMBDA s1 :
               IF s1.err # "nil" THEN s1
               ELSE With(Bytes(d.Data), LAMBDA buf :
                    With(WriterWrite(s1, Word32(0, 0), buf), LAMBDA s2 :
                      IF s2.err # "nil" THEN s2 ELSE WriterClose(s2, sink.close))))

\* The images written: no configuration bytes, 1, 4, 8 and 32 of them; a blank
\* memory and one with bytes at both ends.
WrittenConfigs ==
    { <<>>, <<254>>, <<255, 253, 255, 255>>, <<127, 253, 255, 255, 255, 255, 255, 255>>,
      Fill(WriteSize, 90) }
WrittenData == { <<>>, (0 :> 2) @@ (1 :> 0) @@ (33 :> 7) @@ (ProgMemSize - 1 :> 9) }
WrittenImages == [Data : WrittenData, Config : WrittenConfigs]

\* The sinks: every write succeeds, or one of the first records, one in the
\* middle or one of the last fails; Close succeeds or fails.
Sinks == [failAt : {0, 1, 2, 3, 200, 385, 386, 387}, close : {"nil", "io"}]

NoImage == [Data |-> <<>>, Config |-> <<>>]
NoSink == [failAt |-> 0, close |-> "nil"]
NotWritten == [err |-> "nil", out |-> <<>>, abs |-> <<>>, closes |-> 0]
NotRead == [err |-> "none", Data |-> <<>>, Config |-> <<>>]

TdWriteInit ==
    /\ twPc = "idle"
    /\ twImage = NoImage
    /\ twSink = NoSink
    /\ twRes = NotWritten
    /\ twBack = NotRead

TdWriteIdle ==
    /\ twPc = "off"
    /\ twImage = NoImage
    /\ twSink = NoSink
    /\ twRes = NotWritten
    /\ twBack = NotRead

\* err := d.Write(ws)
TwWrite(d, sink) ==
    /\ twPc = "idle"
    /\ twImage' = d
    /\ twSink' = sink
    /\ \E st \in {TargetDataWrite(d, sink)} :
          twRes' = [err |-> st.err, out |-> st.out, abs |-> st.abs, closes |-> st.closes]
    /\ twPc' = "done"
    /\ UNCHANGED twBack

\* The file the records out make, as Reader.Next gets it from ReadPacket:
\* WritePacket puts each record on a line of its own and ReadPacket reads
\* one line at a call, so the records read are those of the lines up to
\* the first that ReadPacket rejects.
fileOf(out) ==
    With([i \in 1..Len(out) |-> ReadPacket(WritePacket(out[i]))], LAMBDA rd :
        LET bad == { i \in 1..Len(out) : rd[i].err # "nil" }
            n == IF bad = {} THEN Len(out)
                 ELSE (CHOOSE i \in bad : \A j \in bad : i <= j) - 1
        IN  Source([i \in 1..n |-> rd[i].pkt],
                   IF bad = {} THEN "EOF" ELSE rd[n + 1].err))

\* d := NewTargetData(td); d.read(rd, 0, ProgMemSize, true, "image") on the
\* file a successful d.Write made.
TwReadBack ==
    /\ twPc = "done"
    /\ twRes.err = "nil"
    /\ \E d \in {read([Data |-> <<>>, Config |-> <<>>, err |-> "nil", log |-> <<>>],
                       fileOf(twRes.out), 0, ProgMemSize, TRUE)} :
          twBack' = [err |-> d.err, Data |-> d.Data, Config |-> d.Config]
    /\ twPc' = "readback"
    /\ UNCHANGED <<twImage, twSink, twRes>>

-----------------------------------------------------------------------------
(* The specifications: one per component.                                  *)

InitSend == DevInit /\ HexIdle /\ WriterIdle /\ CfgIdle /\ TdIdle /\ FlowIdle /\ CmdIdle /\ FrameIdle /\ ReaderIdle /\ ComposeIdle /\ TdWriteIdle /\ UsbIdle
NextSend ==
    \E body \in TxBodies, wr \in WriteOutcomes :
        Send(body, wr) /\ UNCHANGED <<hexVars, wrVars, cfVars, tdVars, flVars, cmVars, frVars, rdVars, rtVars, twVars, usVars>>
SpecSend == InitSend /\ [][NextSend]_vars

InitDev == DevInit /\ HexIdle /\ WriterIdle /\ CfgIdle /\ TdIdle /\ FlowIdle /\ CmdIdle /\ FrameIdle /\ ReaderIdle /\ ComposeIdle /\ TdWriteIdle /\ UsbIdle
NextDev ==
    \/ \E body \in ReqBodies, wr \in WriteOutcomes :
          Send(body, wr) /\ UNCHANGED <<hexVars, wrVars, cfVars, tdVars, flVars, cmVars, frVars, rdVars, rtVars, twVars, usVars>>
    \/ ReceiveBegin /\ UNCHANGED <<hexVars, wrVars, cfVars, tdVars, flVars, cmVars, frVars, rdVars, rtVars, twVars, usVars>>
    \/ \E pkt \in RxPackets(seqNo), rd \in ReadOutcomes :
          ReceiveRead(pkt, rd) /\ UNCHANGED <<hexVars, wrVars, cfVars, tdVars, flVars, cmVars, frVars, rdVars, rtVars, twVars, usVars>>
SpecDev == InitDev /\ [][NextDev]_vars

InitPair == DevInit /\ UsbInit /\ HexIdle /\ WriterIdle /\ CfgIdle /\ TdIdle /\ FlowIdle /\ CmdIdle /\ FrameIdle /\ ReaderIdle /\ ComposeIdle /\ TdWriteIdle
NextPair ==
    \/ \E body \in PairBodies, wr \in WriteOutcomes :
          PairSend(body, wr) /\ UNCHANGED <<hexVars, wrVars, cfVars, tdVars, flVars, cmVars, frVars, rdVars, rtVars, twVars>>
    \/ PairReceiveBegin /\ UNCHANGED <<hexVars, wrVars, cfVars, tdVars, flVars, cmVars, frVars, rdVars, rtVars, twVars>>
    \/ rxPc = "read" /\ \E pkt \in PairPackets(seqNo), rd \in ReadOutcomes :
          PairReceiveRead(pkt, rd) /\ UNCHANGED <<hexVars, wrVars, cfVars, tdVars, flVars, cmVars, frVars, rdVars, rtVars, twVars>>
SpecPair == InitPair /\ [][NextPair]_vars

InitHex == HexInit /\ DevIdle /\ WriterIdle /\ CfgIdle /\ TdIdle /\ FlowIdle /\ CmdIdle /\ FrameIdle /\ ReaderIdle /\ ComposeIdle /\ TdWriteIdle /\ UsbIdle
NextHex ==
    \/ HexWrite /\ UNCHANGED <<devVars, wrVars, cfVars, tdVars, flVars, cmVars, frVars, rdVars, rtVars, twVars, usVars>>
    \/ HexRead /\ UNCHANGED <<devVars, wrVars, cfVars, tdVars, flVars, cmVars, frVars, rdVars, rtVars, twVars, usVars>>
    \/ \E i \in FlipIndexes, k \in 0..7 : HexFlip(i, k) /\ UNCHANGED <<devVars, wrVars, cfVars, tdVars, flVars, cmVars, frVars, rdVars, rtVars, twVars, usVars>>
    \/ HexReadFlipped /\ UNCHANGED <<devVars, wrVars, cfVars, tdVars, flVars, cmVars, frVars, rdVars, rtVars, twVars, usVars>>
SpecHex == InitHex /\ [][NextHex]_vars

InitWriter == WriterInit /\ DevIdle /\ HexIdle /\ CfgIdle /\ TdIdle /\ FlowIdle /\ CmdIdle /\ FrameIdle /\ ReaderIdle /\ ComposeIdle /\ TdWriteIdle /\ UsbIdle
NextWriter ==
    \E addr \in WriteAddresses, n \in WriteLengths, failAt \in SinkFailures :
        Write(addr, n, failAt) /\ UNCHANGED <<devVars, hexVars, cfVars, tdVars, flVars, cmVars, frVars, rdVars, rtVars, twVars, usVars>>
SpecWriter == InitWriter /\ [][NextWriter]_vars

InitCfg == CfgInit /\ DevIdle /\ HexIdle /\ WriterIdle /\ TdIdle /\ FlowIdle /\ CmdIdle /\ FrameIdle /\ ReaderIdle /\ ComposeIdle /\ TdWriteIdle /\ UsbIdle
NextCfg ==
    \/ CfgMarshal /\ UNCHANGED <<devVars, hexVars, wrVars, tdVars, flVars, cmVars, frVars, rdVars, rtVars, twVars, usVars>>
    \/ \E n \in ConfigLengths : CfgUnmarshal(n) /\ UNCHANGED <<devVars, hexVars, wrVars, tdVars, flVars, cmVars, frVars, rdVars, rtVars, twVars, usVars>>
    \/ cfPc = "new" /\ cfIn = ZeroConfig /\ \E buf \in DecodedBuffers : CfgDecode(buf) /\ UNCHANGED <<devVars, hexVars, wrVars, tdVars, flVars, cmVars, frVars, rdVars, rtVars, twVars, usVars>>
    \/ CfgGetLDROMSize /\ UNCHANGED <<devVars, hexVars, wrVars, tdVars, flVars, cmVars, frVars, rdVars, rtVars, twVars, usVars>>
SpecCfg == InitCfg /\ [][NextCfg]_vars

InitImage == TdInit /\ DevIdle /\ HexIdle /\ WriterIdle /\ CfgIdle /\ FlowIdle /\ CmdIdle /\ FrameIdle /\ ReaderIdle /\ ComposeIdle /\ TdWriteIdle /\ UsbIdle
NextImage ==
    \/ \E src \in Sources : TdReadImage(src) /\ UNCHANGED <<devVars, hexVars, wrVars, cfVars, flVars, cmVars, frVars, rdVars, rtVars, twVars, usVars>>
    \/ \E f \in TextFiles : TdReadText(f) /\ UNCHANGED <<devVars, hexVars, wrVars, cfVars, flVars, cmVars, frVars, rdVars, rtVars, twVars, usVars>>
    \/ \E src \in Sources : TdReadAPROM(src) /\ UNCHANGED <<devVars, hexVars, wrVars, cfVars, flVars, cmVars, frVars, rdVars, rtVars, twVars, usVars>>
    \/ \E src \in Sources : TdReadLDROM(src) /\ UNCHANGED <<devVars, hexVars, wrVars, cfVars, flVars, cmVars, frVars, rdVars, rtVars, twVars, usVars>>
    \/ TdAPROM /\ UNCHANGED <<devVars, hexVars, wrVars, cfVars, flVars, cmVars, frVars, rdVars, rtVars, twVars, usVars>>
    \/ TdLDROM /\ UNCHANGED <<devVars, hexVars, wrVars, cfVars, flVars, cmVars, frVars, rdVars, rtVars, twVars, usVars>>
SpecImage == InitImage /\ [][NextImage]_vars

InitFlow == FlowInit /\ DevIdle /\ HexIdle /\ WriterIdle /\ CfgIdle /\ TdIdle /\ CmdIdle /\ FrameIdle /\ ReaderIdle /\ ComposeIdle /\ TdWriteIdle /\ UsbIdle
NextFlow ==
    \/ \E n \in 0..MaxProgrammers, failed \in BOOLEAN : FlConnect(n, failed) /\ UNCHANGED <<devVars, hexVars, wrVars, cfVars, tdVars, cmVars, frVars, rdVars, rtVars, twVars, usVars>>
    \/ \E out \in Outcomes, ver \in FirmwareVersions : FlGetVersion(out, ver) /\ UNCHANGED <<devVars, hexVars, wrVars, cfVars, tdVars, cmVars, frVars, rdVars, rtVars, twVars, usVars>>
    \/ \E out \in Outcomes : FlSetConfig(out) /\ UNCHANGED <<devVars, hexVars, wrVars, cfVars, tdVars, cmVars, frVars, rdVars, rtVars, twVars, usVars>>
    \/ \E out \in Outcomes : FlResetICP(out) /\ UNCHANGED <<devVars, hexVars, wrVars, cfVars, tdVars, cmVars, frVars, rdVars, rtVars, twVars, usVars>>
    \/ \E out \in Outcomes : FlResetNone(out) /\ UNCHANGED <<devVars, hexVars, wrVars, cfVars, tdVars, cmVars, frVars, rdVars, rtVars, twVars, usVars>>
    \/ \E out \in Outcomes, id \in DeviceIDs : FlCheckID(out, id) /\ UNCHANGED <<devVars, hexVars, wrVars, cfVars, tdVars, cmVars, frVars, rdVars, rtVars, twVars, usVars>>
    \/ \E out \in Outcomes, config \in FlowConfigs : FlCompose(out, config) /\ UNCHANGED <<devVars, hexVars, wrVars, cfVars, tdVars, cmVars, frVars, rdVars, rtVars, twVars, usVars>>
    \/ \E out \in Outcomes : FlErase(out) /\ UNCHANGED <<devVars, hexVars, wrVars, cfVars, tdVars, cmVars, frVars, rdVars, rtVars, twVars, usVars>>
    \/ \E out \in Outcomes : FlWriteConfig(out) /\ UNCHANGED <<devVars, hexVars, wrVars, cfVars, tdVars, cmVars, frVars, rdVars, rtVars, twVars, usVars>>
    \/ \E out \in Outcomes : FlWriteAPROM(out) /\ UNCHANGED <<devVars, hexVars, wrVars, cfVars, tdVars, cmVars, frVars, rdVars, rtVars, twVars, usVars>>
    \/ \E out \in Outcomes : FlWriteLDROM(out) /\ UNCHANGED <<devVars, hexVars, wrVars, cfVars, tdVars, cmVars, frVars, rdVars, rtVars, twVars, usVars>>
    \/ \E out \in Outcomes, bytes \in FlowConfigs \cup {ShortConfig} : FlReadConfig(out, bytes) /\ UNCHANGED <<devVars, hexVars, wrVars, cfVars, tdVars, cmVars, frVars, rdVars, rtVars, twVars, usVars>>
    \/ \E out \in Outcomes : FlReadAPROM(out) /\ UNCHANGED <<devVars, hexVars, wrVars, cfVars, tdVars, cmVars, frVars, rdVars, rtVars, twVars, usVars>>
    \/ \E out \in Outcomes : FlReadLDROM(out) /\ UNCHANGED <<devVars, hexVars, wrVars, cfVars, tdVars, cmVars, frVars, rdVars, rtVars, twVars, usVars>>
    \/ \E out \in OutputOutcomes : FlOutput(out) /\ UNCHANGED <<devVars, hexVars, wrVars, cfVars, tdVars, cmVars, frVars, rdVars, rtVars, twVars, usVars>>
    \/ \E out \in Outcomes, config \in FlowConfigs : FlMerge(out, config) /\ UNCHANGED <<devVars, hexVars, wrVars, cfVars, tdVars, cmVars, frVars, rdVars, rtVars, twVars, usVars>>
    \/ \E o1 \in Outcomes, o2 \in Outcomes, o3 \in Outcomes : FlTeardown(o1, o2, o3) /\ UNCHANGED <<devVars, hexVars, wrVars, cfVars, tdVars, cmVars, frVars, rdVars, rtVars, twVars, usVars>>
SpecFlow == InitFlow /\ [][NextFlow]_vars

InitCmd == CmdInit /\ DevIdle /\ HexIdle /\ WriterIdle /\ CfgIdle /\ TdIdle /\ FlowIdle /\ FrameIdle /\ ReaderIdle /\ ComposeIdle /\ TdWriteIdle /\ UsbIdle
NextCmd ==
    \E op \in Operations, out \in Outcomes, body \in Responses :
        CmdCall(op, out, body) /\ UNCHANGED <<devVars, hexVars, wrVars, cfVars, tdVars, flVars, frVars, rdVars, rtVars, twVars, usVars>>
SpecCmd == InitCmd /\ [][NextCmd]_vars

InitFrame == FrameInit /\ DevIdle /\ HexIdle /\ WriterIdle /\ CfgIdle /\ TdIdle /\ FlowIdle /\ CmdIdle /\ ReaderIdle /\ ComposeIdle /\ TdWriteIdle /\ UsbIdle
NextFrame ==
    \/ \E seqno \in FrameSeqs, body \in FrameBodies : FrFrame(seqno, body) /\ UNCHANGED <<devVars, hexVars, wrVars, cfVars, tdVars, flVars, cmVars, rdVars, rtVars, twVars, usVars>>
    \/ FrUnframeFrame /\ UNCHANGED <<devVars, hexVars, wrVars, cfVars, tdVars, flVars, cmVars, rdVars, rtVars, twVars, usVars>>
    \/ \E pkg \in RawPackets : FrUnframe(pkg) /\ UNCHANGED <<devVars, hexVars, wrVars, cfVars, tdVars, flVars, cmVars, rdVars, rtVars, twVars, usVars>>
SpecFrame == InitFrame /\ [][NextFrame]_vars

InitReader == ReaderInit /\ DevIdle /\ HexIdle /\ WriterIdle /\ CfgIdle /\ TdIdle /\ FlowIdle /\ CmdIdle /\ FrameIdle /\ ComposeIdle /\ TdWriteIdle /\ UsbIdle
NextReader == RdNext /\ UNCHANGED <<devVars, hexVars, wrVars, cfVars, tdVars, flVars, cmVars, frVars, rtVars, twVars, usVars>>
SpecReader == InitReader /\ [][NextReader]_vars

InitCompose == ComposeInit /\ DevIdle /\ HexIdle /\ WriterIdle /\ CfgIdle /\ TdIdle /\ FlowIdle /\ CmdIdle /\ FrameIdle /\ ReaderIdle /\ TdWriteIdle /\ UsbIdle
NextCompose ==
    \/ rtPc = "idle" /\ \E a \in Arguments :
        \E fi \in FilesFor(a.image), fa \in FilesFor(a.aprom), fl \in FilesFor(a.ldrom),
           fc \in ConfigFilesFor(a.config), parsed \in ParsedFor(a.config) :
            RtCall(a, [image |-> fi, aprom |-> fa, ldrom |-> fl, config |-> fc], parsed)
                /\ UNCHANGED <<devVars, hexVars, wrVars, cfVars, tdVars, flVars, cmVars, frVars, rdVars, twVars, usVars>>
    \/ \E bytes \in DeviceConfigs : RtNew(bytes) /\ UNCHANGED <<devVars, hexVars, wrVars, cfVars, tdVars, flVars, cmVars, frVars, rdVars, twVars, usVars>>
    \/ RtAPROM /\ UNCHANGED <<devVars, hexVars, wrVars, cfVars, tdVars, flVars, cmVars, frVars, rdVars, twVars, usVars>>
    \/ RtLDROM /\ UNCHANGED <<devVars, hexVars, wrVars, cfVars, tdVars, flVars, cmVars, frVars, rdVars, twVars, usVars>>
SpecCompose == InitCompose /\ [][NextCompose]_vars

InitTdWrite == TdWriteInit /\ DevIdle /\ HexIdle /\ WriterIdle /\ CfgIdle /\ TdIdle /\ FlowIdle /\ CmdIdle /\ FrameIdle /\ ReaderIdle /\ ComposeIdle /\ UsbIdle
NextTdWrite ==
    \/ TwReadBack /\ UNCHANGED <<devVars, hexVars, wrVars, cfVars, tdVars, flVars, cmVars, frVars, rdVars, rtVars, usVars>>
    \/     twPc = "idle" /\ \E d \in WrittenImages, sink \in Sinks :
        TwWrite(d, sink) /\ UNCHANGED <<devVars, hexVars, wrVars, cfVars, tdVars, flVars, cmVars, frVars, rdVars, rtVars, usVars>>
SpecTdWrite == InitTdWrite /\ [][NextTdWrite]_vars

-----------------------------------------------------------------------------
(* Properties of the device session.                                       *)

\* The cycle of sequence numbers as the specification words it: 1 comes
\* first (after the initial 0) and 1 follows 0x7F.
CycleNext(s) == IF s = 127 THEN 1 ELSE s + 1

RECURSIVE CycleAdvance(_, _)
CycleAdvance(s, n) == IF n = 0 THEN s ELSE CycleAdvance(CycleNext(s), n - 1)

\* C1 as claimed: the sequence number of every frame handed to the
\* transport is in 1..0x7F, the first one is 1, and each one is the cyclic
\* successor of the one in the frame before it.
C1_AsClaimed ==
    txCur # -1 =>
        /\ txCur \in 1..127
        /\ txPrev = -1 => txCur = 1
        /\ txPrev # -1 => txCur = CycleNext(txPrev)

\* C1, amended: the numbers allocated by successive Send calls are 1, 2, ...,
\* 0x7F, 1, ...; every frame handed to the transport carries the number its
\* Send allocated, so it is in 1..0x7F and never 0 or >= 0x80; a Send that
\* fails before a frame is built (body longer than 62 bytes) still consumes
\* its number, so the numbers of two consecutive frames differ by 1 plus the
\* number of such calls in between.
C1_SequenceCycle ==
    /\ seqNo \in 0..127
    /\ seqNo = CycleAdvance(IF txCur = -1 THEN 0 ELSE txCur, txSkip)
    /\ txCur # -1 =>
        /\ txCur \in 1..127
        /\ wire[1] = txCur
        /\ txCur = CycleAdvance(IF txPrev = -1 THEN 0 ELSE txPrev, 1 + txGap)

\* The counter has wrapped: the frame after the one numbered 0x7F is numbered 1.
C1_Witness == txPrev = 127 /\ txCur = 1 /\ txGap = 0 /\ sendErr = "nil"

\* C2: while every read of a Receive delivered a full-size well-formed frame,
\* k <= 4 frames with another sequence number followed by a frame with the
\* awaited one make Receive return that frame's body after exactly k+1
\* reads; five frames with another sequence number make it fail with the
\* sequence-mismatch error after exactly 5 reads; there is never a sixth read.
C2_ReceiveResync ==
    /\ rxReads <= 5
    /\ (rxPc = "read" /\ ~rxBad) => (rxReads = rxStale /\ rxStale <= 4)
    /\ (rxPc = "done" /\ ~rxBad) =>
          IF rxLast[1] = seqNo
          THEN /\ rxStale <= 4
               /\ rxReads = rxStale + 1
               /\ rxResult = [err |-> "nil", body |-> SubSeq(rxLast, 3, 2 + rxLast[2])]
          ELSE /\ rxStale = 5
               /\ rxReads = 5
               /\ rxResult = [err |-> "ErrSequenceNumberIncorrect", body |-> <<>>]

\* Four stale frames, then the awaited one: its one-byte body is returned
\* by the fifth read.
C2_Witness ==
    /\ rxPc = "done" /\ ~rxBad
    /\ rxStale = 4 /\ rxReads = 5
    /\ rxResult.err = "nil" /\ Len(rxResult.body) = 1

-----------------------------------------------------------------------------
(* Properties of the record codec.                                         *)

\* The value of an upper-case hex digit.
HexVal(c) == IF c <= 57 THEN c - 48 ELSE c - 55

\* The checksum characters of the record WritePacket wrote for p, as a byte.
WrittenChecksum(text, p) ==
    16 * HexVal(text[10 + 2 * Len(p.Data)]) + HexVal(text[11 + 2 * Len(p.Data)])

\* C3: for a record of type 0..5 with a 16-bit address and 0..255 payload
\* bytes, ReadPacket of the text WritePacket produced returns the same type,
\* address and payload, and length + addrHi + addrLo + type + payload bytes +
\* the emitted checksum is 0 modulo 256.
C3_RoundTrip ==
    hxPc = "read" =>
        /\ hxRes.err = "nil"
        /\ hxRes.pkt.Type = hxPkt.Type
        /\ hxRes.pkt.Address = hxPkt.Address
        /\ hxRes.pkt.Data = hxPkt.Data
        /\ ( Len(hxPkt.Data) + (hxPkt.Address \div 256) + (hxPkt.Address % 256)
             + hxPkt.Type + SumRange(hxPkt.Data, 1, Len(hxPkt.Data))
             + WrittenChecksum(hxText, hxPkt) ) % 256 = 0

\* The 255-byte record came back whole.
C3_Witness ==
    hxPc = "read" /\ Len(hxPkt.Data) = 255 /\ hxRes.err = "nil" /\ Len(hxRes.pkt.Data) = 255

\* C4 as claimed: after one bit of a header or payload byte is flipped,
\* ReadPacket fails checksum validation.
C4_AsClaimed ==
    hxPc = "readflipped" => hxRes.err = "ErrInvalidChecksum"

\* C4, amended: after one bit of a header or payload byte is flipped,
\* ReadPacket never succeeds; for a flip in the address, type or payload
\* bytes it fails with the checksum error, for a flip in the length byte it
\* fails with the checksum, invalid-hex-digit or invalid-terminator error or
\* with io.EOF, because the changed length moves where the checksum is read.
C4_FlipDetected ==
    hxPc = "readflipped" =>
        /\ hxRes.err # "nil"
        /\ hxFlip.idx >= 1 => hxRes.err = "ErrInvalidChecksum"
        /\ hxFlip.idx = 0 =>
              hxRes.err \in {"ErrInvalidChecksum", "ErrInvalidHex", "ErrInvalidEOL", "EOF"}

\* A flipped length bit made the reader run off the end of the stream.
C4_Witness ==
    hxPc = "readflipped" /\ hxFlip.idx = 0 /\ hxRes.err = "EOF"

-----------------------------------------------------------------------------
(* Properties of the record writer.                                        *)

\* The base a reader of the stream has in force at record i: that of the
\* last ExtendedLinearAddress record before it, 0 when there is none.
RECURSIVE BaseBefore(_, _)
BaseBefore(out, i) ==
    IF i <= 1 THEN 0
    ELSE IF out[i - 1].Type = 4
    THEN out[i - 1].Data[1] * 256 + out[i - 1].Data[2]
    ELSE BaseBefore(out, i - 1)

\* C5: after any sequence of Write calls no Data record has offset + payload
\* length > 0x10000, and the 64KB segment of every Data record's absolute
\* address is the one the last ExtendedLinearAddress record before it
\* carries in its upper 16 bits (segment 0 when none precedes it): a Data
\* record in another segment than the base in force is preceded by the
\* record that changes the base, and base + offset is its address.
C5_SegmentsAnnounced ==
    \A i \in 1..Len(wOut) :
        wOut[i].Type = 0 =>
            /\ wOut[i].Address + Len(wOut[i].Data) <= 65536
            /\ BaseBefore(wOut, i) = wAbs[i].hi
            /\ wOut[i].Address = wAbs[i].lo

\* A second Write went back from segment 3 to segment 0: the stream holds
\* the record announcing segment 3 and, later, the one announcing segment 0.
C5_Witness ==
    /\ wCalls = 2 /\ wErr = "nil"
    /\ \E i, j \in 1..Len(wOut) :
          /\ i < j
          /\ wOut[i].Type = 4 /\ wOut[i].Data = <<0, 3>>
          /\ wOut[j].Type = 4 /\ wOut[j].Data = <<0, 0>>
          /\ j < Len(wOut) /\ wOut[j + 1].Type = 0 /\ wAbs[j + 1] = Word32(0, 0)

-----------------------------------------------------------------------------
(* Properties of the configuration codec.                                  *)

\* C6: for every configuration whose fields hold defined values
\* MarshalBinary succeeds, and UnmarshalBinary of its output yields a
\* configuration equal to the input in every field.
C6_ConfigRoundTrip ==
    cfIn \in DefinedConfigs =>
        /\ cfPc = "marshalled" => cfErr = "nil" /\ Len(cfBuf) = 8
        /\ cfPc = "unmarshalled" /\ cfLen = Len(cfBuf) =>
              cfErr = "nil" /\ cfOut = cfIn

\* A configuration with every multi-valued field away from its zero value
\* went through both calls.
C6_Witness ==
    /\ cfPc = "unmarshalled" /\ cfErr = "nil" /\ cfLen = 8
    /\ cfIn.WDT = WDTEnabled /\ cfIn.LDROMSize = N76E003LDROM2KB
    /\ cfIn.BODVoltage = BODVoltage2v7 /\ cfIn.BootSelect = BootFromAPROM
    /\ cfIn.Locked /\ ~cfIn.OCDEnabled
    /\ cfOut = cfIn /\ cfBuf[2] = 253 /\ cfBuf[4] = 95

-----------------------------------------------------------------------------
(* Properties of the image.                                                *)

\* C7: read handles every block in exactly one way: copied to
\* memory[offset+address ..) when address + len(data) <= N; else taken as
\* the configuration bytes when its address is the configuration offset;
\* else the read fails as out of range.  No byte outside [offset, offset+N)
\* is written.
C7_AsClaimed ==
    \A i \in 1..Len(tdLog) :
        LET e == tdLog[i]
            fits == e.addr.hi = 0 /\ e.addr.lo + e.len <= tdLength
        IN  /\ fits => e.how = "copy" /\ e.at = tdOffset + e.addr.lo
            /\ ~fits /\ e.addr = IHexOffset => e.how = "config"
            /\ ~fits /\ e.addr # IHexOffset => e.how = "range"
            /\ e.how = "copy" =>
                  /\ tdOffset <= e.at
                  /\ e.at + e.len <= tdOffset + tdLength

\* The loader size a configuration stands for, from its size code.
LoaderSizeOfCode(code) ==
    CASE code = 7 -> 0
      [] code = 6 -> 1024
      [] code = 5 -> 2048
      [] code = 4 -> 3072
      [] OTHER -> 4096

\* C8: for every configuration that decodes, the program region and the
\* loader region add up to ProgMemSize: APROM() is memory[0 : ProgMemSize -
\* loader size], LDROM() is memory[ProgMemSize - loader size : ProgMemSize]
\* and is empty for loader size 0; with the 2KB loader size of the 12KB
\* target these are 10240 bytes and memory[10240:12288].
C8_RegionsPartition ==
    tdAPROM.called /\ tdLDROM.called =>
        LET L == LoaderSizeOfCode(tdConfig[2] % 8)
        IN  /\ tdAPROM.err = "nil" /\ tdLDROM.err = "nil"
            /\ ~tdAPROM.isNil /\ tdAPROM.lo = 0 /\ tdAPROM.hi = ProgMemSize - L
            /\ (tdAPROM.hi - tdAPROM.lo) + (tdLDROM.hi - tdLDROM.lo) = ProgMemSize
            /\ L = 0 => tdLDROM.isNil
            /\ L # 0 => ~tdLDROM.isNil /\ tdLDROM.lo = ProgMemSize - L
                           /\ tdLDROM.hi = ProgMemSize
            /\ L = 2048 => /\ tdAPROM.hi - tdAPROM.lo = 10240
                           /\ tdLDROM.lo = 10240 /\ tdLDROM.hi = 12288

\* Both regions of an image with the 2KB loader size code were taken.
C8_Witness ==
    /\ tdAPROM.called /\ tdLDROM.called
    /\ Len(tdConfig) >= 4 /\ tdConfig[2] % 8 = 5
    /\ tdAPROM.hi = 10240 /\ tdLDROM.lo = 10240

-----------------------------------------------------------------------------
(* Properties of the program and read commands.                            *)

IsFlashCommand(e) == e.cmd \in {"EraseFlashChip", "WriteMemory", "ReadMemory"}

\* The handshake is complete in the entries before index i: one programmer
\* was opened and is still open, and in this order the version query
\* answered with a firmware version >= the required one, the session
\* configuration was accepted, both ICP resets succeeded and the identity
\* check answered with the id of the target.
HandshakeBefore(log, i) ==
    /\ Cardinality({k \in 1..(i - 1) : log[k].cmd = "open"}) = 1
    /\ \A k \in 1..(i - 1) : log[k].cmd # "close"
    /\ \E v \in 1..(i - 1) :
          /\ log[v].cmd = "GetVersion" /\ log[v].ok /\ log[v].val >= 6069
          /\ \E c \in (v + 1)..(i - 1) :
                /\ log[c].cmd = "SetConfig" /\ log[c].ok
                /\ \E r1 \in (c + 1)..(i - 1) :
                      /\ log[r1] = ResetCmd(0, 5, 0, TRUE)
                      /\ \E r2 \in (r1 + 1)..(i - 1) :
                            /\ log[r2] = ResetCmd(5, 5, 0, TRUE)
                            /\ \E d \in (r2 + 1)..(i - 1) :
                                  /\ log[d].cmd = "CheckID" /\ log[d].ok
                                  /\ log[d].val = 14300752

\* C9: in the program and read commands no erase-flash-chip, write-memory or
\* read-memory command is sent unless the handshake has completed: it is
\* complete before the first such command, and once a handle was closed (or
\* another opened) no such command follows.
C9_FlashOnlyAfterHandshake ==
    /\ \A i \in 1..Len(flLog) :
          IsFlashCommand(flLog[i]) /\ (\A j \in 1..(i - 1) : ~IsFlashCommand(flLog[j]))
              => HandshakeBefore(flLog, i)
    /\ \A k \in 1..Len(flLog) :
          flLog[k].cmd \in {"open", "close"} /\ (\E j \in 1..(k - 1) : IsFlashCommand(flLog[j]))
              => \A i \in (k + 1)..Len(flLog) : ~IsFlashCommand(flLog[i])

\* The program command got past the program region: its first write of the
\* loader region, at the loader offset, was sent.
C9_Witness ==
    /\ flPc = "ldrom" /\ flKind = "program" /\ flI = 32
    /\ flLog[Len(flLog)] = Cmd("WriteMemory", <<0, 14336, 32>>, TRUE, 0)

\* C10: on every exit path after the one device handle was opened, the
\* three teardown resets (auto/ICP, auto/disconnect, none/disconnect) are
\* the commands sent last before the handle is released.
C10_AsClaimed ==
    \A k \in 1..Len(flLog) :
        flLog[k].cmd = "close" /\ Cardinality({j \in 1..k : flLog[j].cmd = "open"}) = 1 =>
            /\ k > 3
            /\ flLog[k - 3].cmd = "Reset" /\ flLog[k - 3].a = <<0, 5, 0>>
            /\ flLog[k - 2].cmd = "Reset" /\ flLog[k - 2].a = <<0, 4, 1>>
            /\ flLog[k - 1].cmd = "Reset" /\ flLog[k - 1].a = <<5, 4, 0>>

-----------------------------------------------------------------------------
(* Properties of the command operations.                                   *)

\* The response begins with the command code the request began with.
EchoesCommand(req, resp) == Len(resp) >= 4 /\ SubSeq(resp, 1, 4) = SubSeq(req, 1, 4)

\* C11: every command operation returns success only if the response body
\* begins with the 32-bit command code that was sent; with any other
\* response it returns an error.
C11_AsClaimed ==
    cmPc = "done" /\ cmResp.err = "nil" =>
        (cmRes.err = "nil" => EchoesCommand(cmReq, cmResp.body))

\* C12: a successful ReadMemory(space, address, length) returns exactly
\* length bytes.
C12_AsClaimed ==
    cmPc = "done" /\ cmOp.name = "ReadMemory" /\ cmRes.err = "nil" =>
        Len(cmRes.bytes) = cmOp.length

-----------------------------------------------------------------------------
(* Properties of the commands as wholes.                                   *)

\* The body of the command is over: what is left is the deferred
\* resetAndCloseDevice, or nothing.
BodyOver == flPc = "teardown" \/ (flPc = "exit" /\ flKind = "merge")

\* C13: in the program, read and merge commands the first error of a step
\* stops the command, no later device command or output step runs, and the
\* command returns an error: it never reports success after a failed step.
C13_AsClaimed ==
    BodyOver /\ (\E k \in 1..Len(flLog) : ~flLog[k].ok) =>
        /\ flErr # "nil"
        /\ ~flLog[Len(flLog)].ok

\* The handles opened so far, and those closed, by the log.
OpenedHandles == { flLog[k].a[1] : k \in { j \in 1..Len(flLog) : flLog[j].cmd = "open" } }
ClosedHandles == { flLog[k].a[1] : k \in { j \in 1..Len(flLog) : flLog[j].cmd = "close" } }
DeviceCommands == { k \in 1..Len(flLog) : flLog[k].cmd \notin {"open", "close"} }

\* C14: connectToTarget goes on only when exactly one programmer was
\* opened; with none or with more than one it fails with a selection error,
\* no command is sent to a device, and every handle opened is closed when
\* it returns.
C14_SingleProgrammer ==
    flKind # "merge" /\ flPc \notin {"off", "start"} /\ flErr # "open" =>
        IF Cardinality(OpenedHandles) = 1
        THEN flErr \notin {"No programmer found", "Multiple programmers found"}
        ELSE /\ flPc = "exit"
             /\ flErr = IF OpenedHandles = {} THEN "No programmer found"
                        ELSE "Multiple programmers found"
             /\ DeviceCommands = {}
             /\ ClosedHandles = OpenedHandles
             /\ flHandles = {}

C14_Witness ==
    /\ flPc = "exit" /\ flErr = "Multiple programmers found"
    /\ Cardinality(OpenedHandles) = MaxProgrammers
    /\ ClosedHandles = OpenedHandles

-----------------------------------------------------------------------------
(* Properties of the framer.                                               *)

\* C15: Frame(seq, body) fails with body-too-long exactly when the body is
\* longer than 62 bytes; otherwise it returns 64 bytes: seq, the length of
\* the body, the body, and zeros in every byte after it.
C15_FrameLayout ==
    frPc \in {"framed", "unframed"} =>
        IF Len(frBody) > 62
        THEN frOut.err = "ErrBodyLengthTooLong"
        ELSE /\ frOut.err = "nil"
             /\ Len(frOut.frame) = 64
             /\ frOut.frame[1] = frSeq
             /\ frOut.frame[2] = Len(frBody)
             /\ \A i \in 1..Len(frBody) : frOut.frame[2 + i] = frBody[i]
             /\ \A i \in (3 + Len(frBody))..64 : frOut.frame[i] = 0

C15_Witness ==
    /\ frPc = "framed" /\ Len(frBody) = 62 /\ frOut.err = "nil"
    /\ frBody[62] = 255 /\ frSeq = 255

\* C16: Unframe(raw) fails when raw is not 64 bytes long or raw[1] is more
\* than 62; otherwise the frame has sequence number raw[0] and body
\* raw[2 : 2+raw[1]]; and Unframe(Frame(seq, body).Bytes()) gives back seq
\* and body.
C16_UnframeInverse ==
    /\ frPc \in {"raw", "unframed"} =>
          IF Len(frRaw) # 64 \/ frRaw[2] > 62
          THEN frUn.err # "nil"
          ELSE /\ frUn.err = "nil"
               /\ SequenceNumber(frUn.frame) = frRaw[1]
               /\ Body(frUn.frame) = [i \in 1..frRaw[2] |-> frRaw[2 + i]]
    /\ frPc = "unframed" =>
          /\ frUn.err = "nil"
          /\ SequenceNumber(frUn.frame) = frSeq
          /\ Body(frUn.frame) = frBody

C16_Witness ==
    \/ frPc = "unframed" /\ Len(frBody) = 62 /\ frBody[1] = 165 /\ frSeq = 127
    \/ frPc = "raw" /\ Len(frRaw) = 64 /\ frRaw[2] = 63 /\ frUn.err = "ErrBodyLengthTooLong"

-----------------------------------------------------------------------------
(* Properties of the record reader.                                        *)

\* The records read so far, the Data records among them in input order, and
\* the calls that returned a block.
Used == Len(rdAll.pkts) - Len(rdSrc.pkts)
IsDataRecord(k) == rdAll.pkts[k].Type = 0
DataRecords == SelectSeq([k \in 1..Used |-> k], IsDataRecord)
ReturnedBlock(t) == t.err = "nil"
Returned == SelectSeq(rdTrace, ReturnedBlock)

\* The base in force at record k: that of the last extension record before
\* it, 0 when there is none.
IsExtension(p) == p.Type \in {2, 4} /\ Len(p.Data) = 2
BaseOf(p) ==
    IF p.Type = 4 THEN Word32(p.Data[1] * 256 + p.Data[2], 0)
    ELSE Word32(p.Data[1] \div 16, (p.Data[1] % 16) * 4096 + p.Data[2] * 16)
BaseAt(k) ==
    LET before == { j \in 1..(k - 1) : IsExtension(rdAll.pkts[j]) }
    IN  IF before = {} THEN Word32(0, 0)
        ELSE BaseOf(rdAll.pkts[CHOOSE j \in before : \A i \in before : i <= j])
BlockOf(k) ==
    LET sum == BaseAt(k).lo + rdAll.pkts[k].Address
    IN  [Address |-> Word32(BaseAt(k).hi + sum \div 65536, sum % 65536),
         Data |-> rdAll.pkts[k].Data]

\* C17: Next returns one Block per Data record, in input order, at the
\* base plus the record address; the base is 0 until the first extension
\* record and then that of the last extension record before the Data
\* record; later extension records leave earlier blocks alone, and
\* start-address records change neither the base nor what is returned.
C17_BlocksInOrder ==
    rdPc = "run" =>
        /\ Len(Returned) = Len(DataRecords)
        /\ \A i \in 1..Len(Returned) : Returned[i].block = BlockOf(DataRecords[i])

C17_Witness ==
    /\ Len(Returned) = 2
    /\ rdAll.pkts[1].Type = 0 /\ rdAll.pkts[2].Type = 2
    /\ rdAll.pkts[3].Type = 5 /\ rdAll.pkts[4].Type = 0
    /\ Returned[1].block.Address = Word32(0, 16)
    /\ Returned[2].block.Address = Word32(2, 9023)

\* The calls that read the end-of-file record, or were made after it was read.
AtOrAfterEOF(i) == \E k \in 1..rdTrace[i].used : rdAll.pkts[k].Type = 1

\* C18: the call of Next that reads an end-of-file record, and every later
\* call, returns end-of-stream and no block, and the later calls read
\* nothing more from the input, whatever follows the record.
C18_EOFSticks ==
    \A i \in 1..Len(rdTrace) :
        AtOrAfterEOF(i) =>
            /\ rdTrace[i].err = "EOF"
            /\ rdTrace[i].block = NoBlock
            /\ \A j \in i..Len(rdTrace) : rdTrace[j].used = rdTrace[i].used

C18_Witness ==
    /\ Len(rdTrace) >= 3
    /\ rdAll.pkts[1].Type = 1
    /\ Len(rdAll.pkts) >= 2 /\ rdAll.pkts[2].Type = 0
    /\ rdTrace[3].used = 1

-----------------------------------------------------------------------------
(* Properties of ReadTargetData.                                           *)

UsageErrors ==
    {"No input files specified",
     "Can only specify maximum of two of Image, APROM and LDROM"}

\* C19: ReadTargetData for an operation that needs an image, with none of
\* image, aprom and ldrom given, fails with a usage error before it opens
\* or reads any input.
C19_NoInputRejected ==
    /\ rtPc = "done" /\ rtArgs.needImage
    /\ rtArgs.image = "" /\ rtArgs.aprom = "" /\ rtArgs.ldrom = ""
    => rtRes.err = "No input files specified" /\ rtIO = <<>>

C19_Witness ==
    /\ rtPc = "done" /\ rtArgs.needImage
    /\ rtArgs.image = "" /\ rtArgs.aprom = "" /\ rtArgs.ldrom = ""
    /\ rtArgs.config = <<64>> /\ rtFiles.config.open = "ok"
    /\ rtRes.err = "No input files specified"

\* C20: ReadTargetData with image, aprom and ldrom all given fails with a
\* usage error before it opens or reads any input.
C20_AsClaimed ==
    /\ rtPc = "done"
    /\ rtArgs.image # "" /\ rtArgs.aprom # "" /\ rtArgs.ldrom # ""
    => rtRes.err \in UsageErrors /\ rtIO = <<>>

\* The image file supplies configuration bytes: it can be opened and holds
\* a block at the configuration offset.
ImageHasConfig ==
    /\ rtArgs.image # "" /\ rtFiles.image.open = "ok"
    /\ \E k \in 1..Len(rtFiles.image.src.pkts) :
          rtFiles.image.src.pkts[k] = ExtendedLinearAddressPacket(3)

\* C21: the split comes only from configuration bytes that are there:
\* ReadTargetData fails when neither the image nor the config parameter
\* gave configuration bytes, and APROM() and LDROM() return an error and no
\* region when the configuration bytes are none or fewer than MinSize.
C21_SplitNeedsConfig ==
    /\ rtPc = "done" /\ rtArgs.config = <<>> /\ ~ImageHasConfig => rtRes.err # "nil"
    /\ rtAPROM.called /\ Len(rtRes.Config) < MinSize => rtAPROM.err # "nil" /\ rtAPROM.isNil
    /\ rtLDROM.called /\ Len(rtRes.Config) < MinSize => rtLDROM.err # "nil" /\ rtLDROM.isNil

C21_Witness ==
    /\ rtPc = "new" /\ rtRes.Config = ShortConfig
    /\ rtAPROM.called /\ rtAPROM.err # "nil"
    /\ rtLDROM.called /\ rtLDROM.err # "nil"

-----------------------------------------------------------------------------
(* Properties of TargetData.Write.                                         *)

\* The Data records written, by their place in the stream, and a <= b on
\* absolute addresses.
DataRecordsWritten == { k \in 1..Len(twRes.out) : twRes.out[k].Type = 0 }
AddressLeq(a, b) == a.hi < b.hi \/ (a.hi = b.hi /\ a.lo <= b.lo)

\* C22: the absolute addresses of the Data records that TargetData.Write
\* emits never go down from one record to the next, with or without
\* configuration bytes.
C22_AsClaimed ==
    twPc = "done" =>
        \A i \in DataRecordsWritten : \A j \in DataRecordsWritten :
            i < j => AddressLeq(twRes.abs[i], twRes.abs[j])

\* The records that hold the configuration, and those of the memory.
ConfigRecords == { k \in DataRecordsWritten : twRes.abs[k].hi = IHexOffset.hi }
MemoryRecords == { k \in DataRecordsWritten : twRes.abs[k].hi = 0 }

\* C23: with configuration bytes, Write emits them as a block at the
\* configuration offset before every record of the memory at address 0; on
\* success the EndOfFile record is the last record written and the sink
\* was closed exactly once.
C23_ConfigFirstThenEOF ==
    twPc = "done" =>
        /\ Len(twImage.Config) > 0 /\ Len(twRes.out) >= 2 =>
              /\ twRes.out[1] = ExtendedLinearAddressPacket(IHexOffset.hi)
              /\ twRes.out[2].Type = 0 /\ twRes.abs[2] = IHexOffset
              /\ \A i \in ConfigRecords : \A j \in MemoryRecords : i < j
        /\ Len(twImage.Config) > 0 /\ twRes.err = "nil" =>
              twRes.out[2].Data = twImage.Config
        /\ twRes.err = "nil" =>
              /\ twRes.out[Len(twRes.out)] = EOFPacket
              /\ \A k \in 1..(Len(twRes.out) - 1) : twRes.out[k] # EOFPacket
              /\ twRes.closes = 1

C23_Witness ==
    /\ twPc = "done" /\ twRes.err = "nil" /\ Len(twImage.Config) = 8
    /\ twRes.closes = 1 /\ Len(twRes.out) = 388
    /\ MemoryRecords # {}

-----------------------------------------------------------------------------
(* Properties of the teardown.                                             *)

\* What resetAndCloseDevice adds to the log in the step from the state
\* where it is due.
Teardown == SubSeq(flLog', Len(flLog) + 1, Len(flLog'))

\* C24: resetAndCloseDevice sends exactly the resets (Auto, ICP mode, ext
\* mode), (Auto, Disconnect, mode 1), (NoneNuLink, Disconnect, ext mode) in
\* this order and then releases the handle, whichever of the resets fail,
\* and leaves the result of the command as it was.
C24_TeardownComplete ==
    [][flPc = "teardown" =>
          /\ Len(Teardown) = 4
          /\ SubSeq(flLog', 1, Len(flLog)) = flLog
          /\ Teardown[1].cmd = "Reset" /\ Teardown[1].a = <<0, 5, 0>>
          /\ Teardown[2].cmd = "Reset" /\ Teardown[2].a = <<0, 4, 1>>
          /\ Teardown[3].cmd = "Reset" /\ Teardown[3].a = <<5, 4, 0>>
          /\ Teardown[4] = Closed(1)
          /\ flHandles = {1} /\ flHandles' = {}
          /\ flErr' = flErr
          /\ flPc' = "exit"]_vars

C24_Witness ==
    /\ flPc = "exit" /\ flKind = "program" /\ flErr = "nil" /\ Len(flLog) > 4
    /\ flLog[Len(flLog)] = Closed(1)
    /\ flLog[Len(flLog) - 3] = ResetCmd(ResetAuto, ConnectICPMode, ResetExtMode, FALSE)
    /\ flLog[Len(flLog) - 2] = ResetCmd(ResetAuto, ConnectDisconnect, ResetMode1, FALSE)
    /\ flLog[Len(flLog) - 1] = ResetCmd(ResetNoneNuLink, ConnectDisconnect, ResetExtMode, TRUE)

-----------------------------------------------------------------------------
(* Properties of ReadTargetData called by `config decode`.                 *)

\* C25: ReadTargetData with needImage = false, the configuration argument
\* "FFFDFFFF" and no image, aprom or ldrom returns without an error an image
\* whose configuration bytes are FF FD FF FF.
C25_AsClaimed ==
    /\ rtPc = "done"
    /\ ~rtArgs.needImage
    /\ rtArgs.config = <<70, 70, 70, 68, 70, 70, 70, 70>>
    /\ rtArgs.image = "" /\ rtArgs.aprom = "" /\ rtArgs.ldrom = ""
    => rtRes.err = "nil" /\ rtRes.Config = <<255, 253, 255, 255>>

-----------------------------------------------------------------------------
(* Properties of the image's memory.                                       *)

\* The memory addresses the blocks of the source that are in range, those
\* with address + len(data) <= N, cover.
CoveredInRange ==
    UNION { (tdOffset + tdLog[i].addr.lo)..(tdOffset + tdLog[i].addr.lo + tdLog[i].len - 1) :
              i \in { j \in 1..Len(tdLog) :
                        /\ tdLog[j].addr.hi = 0
                        /\ tdLog[j].addr.lo + tdLog[j].len <= tdLength } }

\* C26: a new image is all 0xFF, and after one block source has been read
\* every byte of memory that no in-range block of the source covers is
\* still 0xFF.
C26_AsClaimed ==
    /\ tdPc = "new" => tdData = <<>>
    /\ tdPc = "read" =>
          \A i \in DOMAIN tdData : i \notin CoveredInRange => tdData[i] = 255

-----------------------------------------------------------------------------
(* Properties of connectToTarget.                                          *)

\* The k-th command of connectToTarget.
IsConnectCommand(e, k) ==
    CASE k = 1 -> e.cmd = "GetVersion"
      [] k = 2 -> e.cmd = "SetConfig"
      [] k = 3 -> e.cmd = "Reset" /\ e.a = <<ResetAuto, ConnectICPMode, ResetExtMode>>
      [] k = 4 -> e.cmd = "Reset" /\ e.a = <<ResetNoneNuLink, ConnectICPMode, ResetExtMode>>
      [] k = 5 -> e.cmd = "CheckID"
      [] OTHER -> FALSE

\* The entries 2..i of the history follow the opening of the one programmer
\* with no handle opened or closed among them.
SessionUpTo(i) ==
    /\ i <= Len(flLog) /\ flLog[1] = Opened(1)
    /\ \A j \in 2..i : flLog[j].cmd \notin {"open", "close"}

\* C27: the commands of connectToTarget are get-version, set-session-config,
\* reset (Auto, ICP mode, ext mode), reset (NoneNuLink, ICP mode, ext mode)
\* and check-device-id in this order; each is sent only after all the
\* earlier ones succeeded, set-session-config only after a firmware version
\* >= FirmwareVersionRequired was reported, and the commands go on past
\* connectToTarget only when the device id returned is the target's.
C27_ConnectOrder ==
    /\ \A i \in 2..6 :
          SessionUpTo(i) =>
              /\ IsConnectCommand(flLog[i], i - 1)
              /\ \A j \in 2..(i - 1) : flLog[j].ok
              /\ i >= 3 => flLog[2].val >= FirmwareVersionRequired
    /\ SessionUpTo(7) => flLog[6].ok /\ flLog[6].val = DeviceN76E003
    /\ flPc = "ready" =>
          /\ SessionUpTo(6) /\ Len(flLog) = 6 /\ flErr = "nil"
          /\ flLog[6].ok /\ flLog[6].val = DeviceN76E003

C27_Witness ==
    /\ flPc = "ready" /\ flHandles = {1}
    /\ flLog = <<Opened(1),
                 Cmd("GetVersion", <<>>, TRUE, FirmwareVersionRequired),
                 Cmd("SetConfig", <<>>, TRUE, 0),
                 ResetCmd(ResetAuto, ConnectICPMode, ResetExtMode, TRUE),
                 ResetCmd(ResetNoneNuLink, ConnectICPMode, ResetExtMode, TRUE),
                 Cmd("CheckID", <<>>, TRUE, DeviceN76E003)>>

-----------------------------------------------------------------------------
(* Properties of one Write call of the record writer.                      *)

\* The Data records the last Write call emitted, as indexes of the stream.
Emitted == { i \in (wFrom + 1)..Len(wOut) : wOut[i].Type = 0 }

\* The payloads of the Data records lo..hi of the stream, one after the
\* other.
RECURSIVE Payloads(_, _)
Payloads(lo, hi) ==
    IF lo > hi THEN <<>>
    ELSE IF wOut[hi].Type = 0 THEN Payloads(lo, hi - 1) \o wOut[hi].Data
    ELSE Payloads(lo, hi - 1)

\* The bytes of the buffer that precede the Data record i of the call.
BytesBefore(i) == Len(Payloads(wFrom + 1, i - 1))

\* C28: a Write(address, buf) that succeeds emits Data records whose
\* payloads, one after the other, are buf and whose addresses go on from
\* address without a gap; no record holds more than 32 bytes or spans a
\* 32-byte boundary; when address is not 32-byte aligned the first record
\* ends at the next 32-byte boundary or at the end of buf; 40 bytes at
\* address 0 on a new writer give a 32-byte and an 8-byte Data record and no
\* ExtendedLinearAddress record; an empty buf emits nothing.
C28_WriteChunks ==
    wCalls > 0 /\ wErr = "nil" =>
        /\ Payloads(wFrom + 1, Len(wOut)) = Buffer(wLen)
        /\ \A i \in Emitted :
              /\ wAbs[i] = Add32(wAddr, BytesBefore(i))
              /\ Len(wOut[i].Data) \in 1..32
              /\ (wAbs[i].lo % 32) + Len(wOut[i].Data) <= 32
        /\ \A i \in Emitted :
              BytesBefore(i) = 0 /\ wAddr.lo % 32 # 0 =>
                  \/ Len(wOut[i].Data) = 32 - (wAddr.lo % 32)
                  \/ Len(wOut[i].Data) = wLen /\ wLen < 32 - (wAddr.lo % 32)
        /\ wFrom = 0 /\ wAddr = Word32(0, 0) /\ wLen = 40 =>
              wOut = <<DataPacket(0, SubSeq(Buffer(40), 1, 32)),
                       DataPacket(32, SubSeq(Buffer(40), 33, 40))>>
        /\ wLen = 0 => Len(wOut) = wFrom

\* 70 bytes written at 0xFFEF: 17 bytes up to 0x10000, the record that
\* announces segment 1, 32 bytes and 21 bytes.
C28_Witness ==
    /\ wCalls = 1 /\ wErr = "nil" /\ wAddr = Word32(0, 65519) /\ wLen = 70
    /\ Len(wOut) = 4
    /\ Len(wOut[1].Data) = 17 /\ wOut[2].Type = 4
    /\ Len(wOut[3].Data) = 32 /\ Len(wOut[4].Data) = 21

-----------------------------------------------------------------------------
(* Properties of the configuration codec on any value and any bytes.       *)

\* C29: for every configuration, with fields outside their enumerations
\* too, MarshalBinary either aborts on its round-trip check or returns 8
\* bytes that UnmarshalBinary turns into a configuration equal to the
\* input.
C29_MarshalChecked ==
    /\ cfPc = "marshalled" =>
          \/ cfErr = "panic" /\ cfBuf = <<>>
          \/ cfErr = "nil" /\ Len(cfBuf) = 8
    /\ cfPc = "unmarshalled" /\ cfLen = Len(cfBuf) => cfErr = "nil" /\ cfOut = cfIn
    /\ cfPc \in {"marshalled", "unmarshalled"} /\ cfIn \notin DefinedConfigs =>
          cfErr = "panic"

\* MarshalBinary aborted on a configuration whose loader size is no value
\* of the enumeration.
C29_Witness ==
    /\ cfPc = "marshalled" /\ cfErr = "panic"
    /\ cfIn = [ZeroConfig EXCEPT !.LDROMSize = 5]

\* C30: UnmarshalBinary fails as too short exactly when it is given fewer
\* than 4 bytes; otherwise the loader size it decodes depends only on the
\* low 3 bits of byte 1 (7: 0KB, 6: 1KB, 5: 2KB, 4: 3KB, 0..3: 4KB), and
\* GetLDROMSize of the decoded configuration returns 0, 1024, 2048, 3072 or
\* 4096 and never aborts.
C30_LoaderSizeDecoded ==
    cfPc \in {"unmarshalled", "decoded"} =>
        /\ cfErr = "short" <=> cfLen < 4
        /\ cfLen >= 4 =>
              /\ cfErr = "nil"
              /\ GetLDROMSize(cfOut).size = LoaderSizeOfCode(cfBuf[2] % 8)
              /\ cfSize # NoSize =>
                    /\ cfSize.err = "nil"
                    /\ cfSize.size = LoaderSizeOfCode(cfBuf[2] % 8)
                    /\ cfSize.size \in {0, 1024, 2048, 3072, 4096}

\* Byte 1 = 0x0A, size code 2 under cleared upper bits, decoded to the 4KB
\* loader.
C30_Witness ==
    /\ cfPc = "decoded" /\ cfErr = "nil" /\ cfLen = 4
    /\ cfBuf[2] = 10
    /\ cfSize = [err |-> "nil", size |-> 4096]

-----------------------------------------------------------------------------
(* Properties of the record reader on extension records of a wrong length. *)

\* The record the call i of Next read last, 0 when it read none.
LastRead(i) ==
    IF rdTrace[i].used > (IF i = 1 THEN 0 ELSE rdTrace[i - 1].used)
    THEN rdTrace[i].used ELSE 0

IsBadExtension(p) == p.Type \in {2, 4} /\ Len(p.Data) # 2

\* C31: a call of Next that reads an ExtendedSegmentAddress or
\* ExtendedLinearAddress record whose payload is not 2 bytes long returns
\* the length error and no block, and the base stays the one in force
\* before the record; no other call returns the length error.
C31_LengthError ==
    /\ \A i \in 1..Len(rdTrace) :
          (LastRead(i) # 0 /\ IsBadExtension(rdAll.pkts[LastRead(i)]))
              <=> rdTrace[i].err = "ErrInvalidRecordLength"
    /\ \A i \in 1..Len(rdTrace) :
          rdTrace[i].err = "ErrInvalidRecordLength" => rdTrace[i].block = NoBlock
    /\ rdPc = "run" => rdR.seg = BaseAt(Used + 1)

\* A 3-byte ExtendedSegmentAddress record after the base was set to
\* 0x30000: the call fails and the base is still 0x30000.
C31_Witness ==
    /\ Len(rdTrace) = 1 /\ rdTrace[1].err = "ErrInvalidRecordLength"
    /\ rdTrace[1].used = 2
    /\ rdAll.pkts[1] = ExtendedLinearAddressPacket(3)
    /\ rdAll.pkts[2].Type = 2 /\ Len(rdAll.pkts[2].Data) = 3
    /\ rdR.seg = Word32(3, 0)

-----------------------------------------------------------------------------
(* Properties of the range check of TargetData.read.                       *)

\* C32: read copies a block only if address + len(data) <= N without
\* wraparound; a block whose 32-bit sum wraps is rejected as out of range or
\* taken as the configuration, and no copy indexes memory out of bounds.
C32_AsClaimed ==
    /\ tdErr # "panic"
    /\ \A i \in 1..Len(tdLog) :
          /\ tdLog[i].how = "copy" =>
                tdLog[i].addr.hi = 0 /\ tdLog[i].addr.lo + tdLog[i].len <= tdLength
          /\ tdLog[i].addr.hi = 65535 /\ tdLog[i].addr.lo + tdLog[i].len >= 65536 =>
                tdLog[i].how \in {"range", "config"}

-----------------------------------------------------------------------------
(* Properties of TargetData.read on a file that is cut off.                *)

\* The bytes of the first k records of the file.
EndOf(recs, k) == Len(TextOf(SubSeq(recs, 1, k)))

\* The file ends in the middle of a record: a record has begun and the cut
\* is before its checksum is complete, and no EndOfFile record precedes it.
EndsMidRecord(f) ==
    \E k \in 1..Len(f.recs) :
        /\ EndOf(f.recs, k - 1) < f.cut
        /\ f.cut < EndOf(f.recs, k) - 1
        /\ \A j \in 1..(k - 1) : f.recs[j].Type # 1

\* C33: read returns success only if the source ended with an EndOfFile
\* record or at a record boundary; a source that ends in the middle of a
\* record makes read return an error.
C33_AsClaimed ==
    tdPc = "read" /\ tdText # NoText /\ EndsMidRecord(tdText) => tdErr # "nil"

-----------------------------------------------------------------------------
(* Properties of the configuration bytes ReadTargetData returns.           *)

\* C34: the configuration bytes of the image ReadTargetData returns are the
\* bytes that were decoded to compute the split of program and loader
\* region; the reads of the aprom and ldrom files do not change them.
C34_AsClaimed ==
    rtPc = "done" /\ rtRes.err = "nil" => rtRes.Config = rtRes.decoded

-----------------------------------------------------------------------------
(* Properties of reading back what TargetData.Write wrote.                 *)

\* The byte of memory at address i: 0xFF where nothing was stored.
ByteAt(data, i) == IF i \in DOMAIN data THEN data[i] ELSE 255

\* C35: for an image with ProgMemSize bytes of memory and 1 to 32
\* configuration bytes, reading the records TargetData.Write emitted into a
\* new image as a full-image source succeeds and gives the same memory and
\* the same configuration bytes.
C35_WriteReadRoundTrip ==
    twPc = "readback" /\ Len(twImage.Config) \in 1..WriteSize =>
        /\ twBack.err = "nil"
        /\ twBack.Config = twImage.Config
        /\ \A i \in 0..(ProgMemSize - 1) :
              ByteAt(twBack.Data, i) = ByteAt(twImage.Data, i)

\* The image with 32 configuration bytes and bytes at both ends of memory
\* was written and read back.
C35_Witness ==
    /\ twPc = "readback" /\ twBack.err = "nil"
    /\ Len(twImage.Config) = WriteSize /\ ByteAt(twImage.Data, ProgMemSize - 1) = 9
    /\ Len(twBack.Config) = WriteSize /\ ByteAt(twBack.Data, ProgMemSize - 1) = 9
    /\ DOMAIN twBack.Data = 0..(ProgMemSize - 1)

-----------------------------------------------------------------------------
(* Properties of the program command.                                      *)

IsProgramWrite(e) == e.cmd = "WriteMemory" /\ e.a[1] = ProgramSpace
IsConfigWrite(e) == e.cmd = "WriteMemory" /\ e.a[1] = ConfigSpace
ProgramWrites == SelectSeq(flLog, IsProgramWrite)

\* C36: in the program command every write-memory command follows an
\* erase-flash-chip command that succeeded; no erase is sent when the image
\* could not be composed; the write of the configuration space, sent when
\* there are configuration bytes, precedes every write of the program
\* space; the program space is written in 32-byte chunks at ascending
\* addresses, the program region from 0 and then the loader region from
\* LDROMOffset.
C36_ProgramOrder ==
    flKind = "program" =>
        \E erases \in {{ j \in 1..Len(flLog) : flLog[j].cmd = "EraseFlashChip" }},
           cw \in {{ j \in 1..Len(flLog) : IsConfigWrite(flLog[j]) }},
           pw \in {{ j \in 1..Len(flLog) : IsProgramWrite(flLog[j]) }},
           writes \in {ProgramWrites} :
            /\ \A i \in cw \cup pw : \E j \in erases : j < i /\ flLog[j].ok
            /\ flErr = "compose" => erases = {}
            /\ \A c \in cw : \A i \in pw : c < i
            /\ Len(flConfig) # 0 /\ pw # {} => \E c \in cw : flLog[c].ok
            /\ \A k \in 1..Len(writes) :
                  /\ writes[k].a[3] = 32
                  /\ writes[k].a[2] =
                        IF 32 * (k - 1) < flAprom THEN 32 * (k - 1)
                        ELSE LDROMOffset + 32 * (k - 1) - flAprom
                  /\ k > 1 => /\ writes[k - 1].ok
                              /\ writes[k - 1].a[2] < writes[k].a[2]

\* The program command wrote a 10KB program region and a 2KB loader region
\* to the end.
C36_Witness ==
    /\ flKind = "program" /\ flPc = "teardown" /\ flErr = "nil"
    /\ flAprom = 10240 /\ flLdrom = 2048
    /\ Len(ProgramWrites) = 384
    /\ ProgramWrites[320].a[2] = 10208
    /\ ProgramWrites[321].a[2] = LDROMOffset
    /\ ProgramWrites[384].a[2] = 16352


-----------------------------------------------------------------------------
(* C37: failed Send calls and the session's sequence number.               *)

\* C37 as claimed: a Send that returns an error (body longer than the
\* maximum, transport write error, short write) leaves seqNo, the number
\* Receive waits for, as it was before the call.
C37_AsClaimed ==
    [][sendErr' # "nil" => seqNo' = seqNo]_vars

\* C37, amended: every Send call, failing or not, advances seqNo to the next
\* number of the cycle before the frame is built and written; when the call
\* succeeds, seqNo, the number Receive waits for, is the number in the frame
\* that call wrote.
C37_SendAdvances ==
    [][/\ seqNo' = CycleNext(seqNo)
       /\ sendErr' = "nil" => wire'[1] = seqNo' /\ txCur' = seqNo']_vars

\* Each kind of failure has happened: a body that is too long after a frame
\* was sent, then a write error or a short write.
C37_Witness ==
    /\ sendErr \in {"io", "ErrWriteSizeIncorrect"}
    /\ txPrev = 1 /\ txGap = 1 /\ txCur = 3 /\ seqNo = 3


-----------------------------------------------------------------------------
(* C38: every handle opened is released exactly once.                      *)

\* The places of the history where handle h was closed.
Closes(h) == { j \in 1..Len(flLog) : flLog[j] = Closed(h) }

\* connectToTarget returned the device to the command.
Connected ==
    \E k \in 1..Len(flLog) :
        flLog[k].cmd = "CheckID" /\ flLog[k].ok /\ ~wrongDevice(flLog[k].val)

\* C38: a handle is closed only after it was opened and at most once; the
\* handles open are those opened and not yet closed; when the command is
\* over every handle opened was closed exactly once.  When connectToTarget
\* failed none is open; when it succeeded the one handle stays open, with
\* no close in the history, until resetAndCloseDevice closes it after its
\* three resets.  Close on a nil or already closed Device adds nothing.
C38_ReleasedOnce ==
    /\ ClosedHandles \subseteq OpenedHandles
    /\ \A h \in OpenedHandles : Cardinality(Closes(h)) <= 1
    /\ flHandles = OpenedHandles \ ClosedHandles
    /\ flPc = "exit" => ClosedHandles = OpenedHandles
    /\ flKind # "merge" /\ flPc \notin {"off", "start", "exit"} =>
           flHandles = {1} /\ ClosedHandles = {}
    /\ flPc = "exit" /\ Connected =>
           /\ Closes(1) = {Len(flLog)}
           /\ \A j \in (Len(flLog) - 3)..(Len(flLog) - 1) : flLog[j].cmd = "Reset"
    /\ \A open \in SUBSET (1..MaxProgrammers), d \in 0..MaxProgrammers :
           /\ Close(open, NilDevice) = [log |-> <<>>, open |-> open]
           /\ Close(Close(open, d).open, d) = [log |-> <<>>, open |-> Close(open, d).open]

\* A read command that connected, whose deferred close in connectToTarget
\* found dev nil, is over with its handle closed once.
C38_Witness ==
    /\ flPc = "exit" /\ flKind = "read" /\ Connected
    /\ OpenedHandles = {1} /\ Cardinality(Closes(1)) = 1 /\ flHandles = {}


-----------------------------------------------------------------------------
(* C39: the two Device implementations on the same session.                *)

\* C39 as claimed: given the same calls and the same incoming frames, the
\* two implementations allocate the same sequence numbers, their Send
\* returns the same error and their Receive returns the same body or the
\* same error.
C39_AsClaimed ==
    /\ usbSeqNo = seqNo
    /\ usbErr = sendErr
    /\ rxPc = "done" => usbRes = rxResult

=============================================================================
